---- MODULE Spec2Model ----
(***************************************************************************)
(* HoneyAgent gateway: token verification (backend/core/identity.py),      *)
(* rule routing (backend/core/router.py), the gateway endpoint             *)
(* (backend/api/main.py) and the fingerprint recorder                      *)
(* (backend/tools/log_interaction.py).                                     *)
(***************************************************************************)
EXTENDS Integers, Sequences, FiniteSets, TLC

VARIABLES
    pc,             \* position of the request in flight: "idle", "await_fga", "await_agent"
    op,             \* entry point of the request in flight
    auth_header,    \* the Authorization header of the request in flight
    identity,       \* the Identity of the request in flight
    agent_name,     \* route_request's result for the request in flight
    response,       \* what the entry point returned last
    steps,          \* the steps the request in flight has run, in order
    jwks_cache,     \* lru_cache(maxsize=1) of get_jwks
    jwks_fetches,   \* outbound key-set fetches so far
    endpoint,       \* what the key-set endpoint answers now
    auth0_domain,   \* whether AUTH0_DOMAIN is set
    requests,       \* requests served so far
    causes,         \* why the rejected requests so far were rejected
    fga_calls,      \* check_fga calls made for the request in flight
    fga_seen,       \* the check_fga call last made: its inputs and its result
    rejected,       \* (cause, identity, destination) of the rejected requests so far
    routing_cfg,    \* config/routing.yaml as loaded
    routing_log,    \* router._routing_log
    cond,           \* the condition handed to evaluate_condition, as an expression tree
    cond_result,    \* evaluate_condition's result
    log_file,       \* logs/fingerprints.jsonl, a sequence of lines
    vector_store,   \* the S3 Vectors index, a sequence of records
    clock,          \* datetime.now(), in ticks
    call,           \* the log_interaction call last made: arguments and injected faults
    ret,            \* what log_interaction returned or raised
    writers,        \* the log_interaction calls writing the log at the same time
    query,          \* the query_patterns call last made: message, provider and store answers
    matches,        \* what query_patterns returned
    request,        \* the body of the request in flight: message, session_id, context
    files,          \* which of the files under config/ and prompts/ can be read
    exec,           \* the execute_agent call last made: configuration used, agent input
    context         \* the get_session_context call last made: arguments and result

vars == <<pc, op, auth_header, identity, agent_name, response, steps, jwks_cache,
          jwks_fetches, endpoint, auth0_domain, requests, causes, fga_calls, fga_seen, rejected, routing_cfg,
          routing_log, cond, cond_result, log_file, vector_store, clock, call, ret,
          writers, query, matches, request, files, exec, context>>

idVars == <<pc, op, auth_header, identity, agent_name, response, steps, jwks_cache,
            jwks_fetches, endpoint, auth0_domain, requests, causes, fga_calls, fga_seen, rejected>>
routeVars == <<routing_cfg, routing_log, cond, cond_result>>
logVars == <<log_file, vector_store, clock, call, ret, writers>>
toolVars == <<query, matches, request, files, exec, context>>

\* Python's None.
None == "None"

\* dict.get(key, default) on a record standing for a dict.
DictGet(d, k, default) == IF k \in DOMAIN d THEN d[k] ELSE default

(***************************************************************************)
(* identity.py                                                             *)
(***************************************************************************)

\* A claims dict: has is the set of keys present, and each key present has its
\* value in the field of its name (a key not present has a filler there).
\* raw_claims = {} of a fallback identity.
EmptyClaims == [has |-> {}, sub |-> << >>, agent_type |-> "", trap_profile |-> ""]

\* claims.get(key, default).
ClaimGet(claims, k, default) == IF k \in claims.has THEN claims[k] ELSE default

\* config/fallbacks.yaml: the sections identity_fallbacks and agent_fallbacks.
load_fallbacks ==
    [identity_fallbacks |->
        [jwks_fetch_failed |->
            [valid |-> FALSE, agent_type |-> None, is_honeypot |-> FALSE,
             fga_allowed |-> FALSE],
         token_decode_failed |->
            [valid |-> FALSE, agent_type |-> None, is_honeypot |-> FALSE,
             fga_allowed |-> FALSE],
         fga_timeout |-> [fga_allowed |-> TRUE]],
     agent_fallbacks |->
        [real |->
            [status |-> "accepted", response |-> "Request queued for processing."],
         honeypot_db_admin |->
            [status |-> "connected", response |-> "Connected to the database."],
         honeypot_privileged |->
            [status |-> "authorized", response |-> "Access granted."],
         default |->
            [status |-> "acknowledged", response |-> "Request acknowledged."]]]

\* A fallback that copies the failure type into the identity.
get_identity_fallback_leaky(fallback_type) ==
    LET fb == DictGet(DictGet(load_fallbacks, "identity_fallbacks", << >>),
                      fallback_type, << >>)
    IN  [valid |-> DictGet(fb, "valid", FALSE),
         agent_id |-> None,
         agent_type |-> fallback_type,
         is_honeypot |-> DictGet(fb, "is_honeypot", FALSE),
         fga_allowed |-> DictGet(fb, "fga_allowed", FALSE),
         raw_claims |-> EmptyClaims]

get_identity_fallback(fallback_type) ==
    LET fb == DictGet(DictGet(load_fallbacks, "identity_fallbacks", << >>),
                      fallback_type, << >>)
    IN  [valid |-> DictGet(fb, "valid", FALSE),
         agent_id |-> None,
         agent_type |-> DictGet(fb, "agent_type", None),
         is_honeypot |-> DictGet(fb, "is_honeypot", FALSE),
         fga_allowed |-> DictGet(fb, "fga_allowed", FALSE),
         raw_claims |-> EmptyClaims]

\* The key ids the tenant's key set publishes.
PublishedKids == {"k1"}

\* What the endpoint can answer: a transport or HTTP error, an empty JSON
\* object, or the key set.
EndpointStates == {"down", "empty", "up"}

\* The value get_jwks returns: None, {} or {"keys": [...]}.
JwksNone == [kind |-> "none", keys |-> {}]
JwksOf(ep) ==
    CASE ep = "down" -> JwksNone
      [] ep = "empty" -> [kind |-> "empty", keys |-> {}]
      [] OTHER -> [kind |-> "dict", keys |-> PublishedKids]

\* A get_jwks without lru_cache: every call fetches.
get_jwks_uncached(cache, domain_set, ep) ==
    LET v == IF ~domain_set THEN JwksNone ELSE JwksOf(ep)
    IN  [val |-> v, cache |-> [set |-> TRUE, val |-> v],
         fetched |-> IF domain_set THEN 1 ELSE 0]

\* get_jwks under lru_cache: the first call's return value, None included, is
\* what every later call returns.
get_jwks(cache, domain_set, ep) ==
    IF cache.set
    THEN [val |-> cache.val, cache |-> cache, fetched |-> 0]
    ELSE LET v == IF ~domain_set THEN JwksNone ELSE JwksOf(ep)
         IN  [val |-> v, cache |-> [set |-> TRUE, val |-> v],
              fetched |-> IF domain_set THEN 1 ELSE 0]

\* get_signing_key: the key the token's kid names, or None.
get_signing_key(token, jwks) ==
    IF jwks.kind # "dict" THEN None          \* not jwks
    ELSE IF ~token.wellformed THEN None      \* get_unverified_header raises
    ELSE IF token.kid \in jwks.keys THEN token.kid
    ELSE None

\* jwt.decode(token, key, algorithms=["RS256"], audience, issuer): raises on a
\* wrong algorithm, signature, expiry, audience or issuer.
jwt_decode(token, key) ==
    IF token.alg # "RS256" \/ token.signer # key \/ token.expired
       \/ ~token.aud_ok \/ ~token.iss_ok
    THEN [raised |-> TRUE, claims |-> EmptyClaims]
    ELSE [raised |-> FALSE, claims |-> token.claims]

\* str.replace("@clients", "") on a subject given as its segments.
RECURSIVE StripClients(_)
StripClients(s) ==
    IF s = << >> THEN << >>
    ELSE IF Head(s) = "@clients" THEN StripClients(Tail(s))
    ELSE <<Head(s)>> \o StripClients(Tail(s))

\* The string its segments spell.
RECURSIVE Concat(_)
Concat(s) == IF s = << >> THEN "" ELSE Head(s) \o Concat(Tail(s))

\* A "sub" claim that is not a string: .replace raises AttributeError.
NonString == <<"#nonstring">>

extract_identity(claims) ==
    LET agent_type == ClaimGet(claims, "agent_type", "real")
        sub == ClaimGet(claims, "sub", << >>)
    IN  IF sub = NonString
        THEN [raised |-> TRUE, identity |-> get_identity_fallback("token_decode_failed")]
        ELSE [raised |-> FALSE,
              identity |-> [valid |-> TRUE,
                            agent_id |-> Concat(StripClients(sub)),
                            agent_type |-> agent_type,
                            is_honeypot |-> (agent_type = "honeypot"),
                            fga_allowed |-> TRUE,
                            raw_claims |-> claims]]

\* str.lower() on the schemes the model sends.
Lower(s) ==
    CASE s = "Bearer" -> "bearer"
      [] s = "BEARER" -> "bearer"
      [] s = "Basic" -> "basic"
      [] OTHER -> s

\* A validate_token that trusts the token when no key can be resolved.
validate_token_open(h, jwks) ==
    IF ~h.present \/ h.empty
    THEN get_identity_fallback("token_decode_failed")
    ELSE IF h.nparts # 2 \/ Lower(h.scheme) # "bearer"
    THEN get_identity_fallback("token_decode_failed")
    ELSE LET signing_key == get_signing_key(h.token, jwks)
         IN  IF signing_key = None
             THEN extract_identity(h.token.claims).identity
             ELSE LET decoded == jwt_decode(h.token, signing_key)
                  IN  IF decoded.raised
                      THEN get_identity_fallback("token_decode_failed")
                      ELSE extract_identity(decoded.claims).identity

\* validate_token, given the key set get_jwks returned.
validate_token(h, jwks) ==
    IF ~h.present \/ h.empty
    THEN get_identity_fallback("token_decode_failed")
    ELSE IF h.nparts # 2 \/ Lower(h.scheme) # "bearer"
    THEN get_identity_fallback("token_decode_failed")
    ELSE LET signing_key == get_signing_key(h.token, jwks)
         IN  IF signing_key = None
             THEN get_identity_fallback("jwks_fetch_failed")
             ELSE LET decoded == jwt_decode(h.token, signing_key)
                  IN  IF decoded.raised
                      THEN get_identity_fallback("token_decode_failed")
                      ELSE extract_identity(decoded.claims).identity

\* Whether validate_token reaches get_signing_key, and so get_jwks.
ReachesJwks(h) ==
    h.present /\ ~h.empty /\ h.nparts = 2 /\ Lower(h.scheme) = "bearer"

\* get_fga_token: the access token, or None when the request fails or the
\* answer carries none.
get_fga_token(tok) == IF tok = "token" THEN "fga-token" ELSE None

\* A check_fga that fails closed on a service error.
check_fga_closed(env, tok, svc) ==
    IF ~(env.store_id /\ env.client_id /\ env.client_secret) THEN TRUE
    ELSE IF get_fga_token(tok) = None THEN TRUE
    ELSE svc = "allowed"

\* check_fga. env: which of the three settings are set; tok: how the token
\* request ends; svc: how the check request ends ("timeout", "http_error",
\* "malformed" raise; "allowed", "denied" carry the field; "no_field" is a
\* successful answer without "allowed").
check_fga(env, tok, svc) ==
    IF ~(env.store_id /\ env.client_id /\ env.client_secret) THEN TRUE
    ELSE IF get_fga_token(tok) = None THEN TRUE
    ELSE IF svc \in {"timeout", "http_error", "malformed"} THEN TRUE
    ELSE IF svc = "allowed" THEN TRUE
    ELSE FALSE

(***************************************************************************)
(* router.py                                                               *)
(***************************************************************************)

\* str(bool).
PyStr(b) == IF b THEN "True" ELSE "False"

\* A string literal of the expression language.
Quote(s) == "\"" \o s \o "\""

\* bool(value) of a value of the expression language.
Truthy(v) == v \notin {"False", "None", Quote("")}

\* The tokens eval reads as values.
IsLiteral(tok) ==
    tok \in {"True", "False", "None", Quote("real"), Quote("honeypot"), Quote("")}

\* The attributes of the local variable identity that eval can read.
IsAttr(tok) ==
    tok \in {"identity.valid", "identity.fga_allowed", "identity.is_honeypot",
             "identity.agent_type"}

AttrValue(id, tok) ==
    CASE tok = "identity.valid" -> PyStr(id.valid)
      [] tok = "identity.fga_allowed" -> PyStr(id.fga_allowed)
      [] tok = "identity.is_honeypot" -> PyStr(id.is_honeypot)
      [] OTHER -> IF id.agent_type = None THEN "None" ELSE Quote(id.agent_type)

ParseFail == [ok |-> FALSE, val |-> "None", pos |-> 0]
Parsed(v, p) == [ok |-> TRUE, val |-> v, pos |-> p]

\* Python's expression grammar on a token sequence t from position i:
\* or_test, and_test, not_test, comparison, atom. ok: the text parses so far;
\* val: the value; pos: the next position.
RECURSIVE ParseOr(_, _, _), OrRest(_, _, _), ParseAnd(_, _, _), AndRest(_, _, _),
          ParseNot(_, _, _), ParseCmp(_, _, _), CmpRest(_, _, _, _), ParseAtom(_, _, _)

\* "(" expr ")": r is the expression parsed after the "(".
CloseParen(t, r) ==
    IF r.ok /\ r.pos <= Len(t) /\ t[r.pos] = ")" THEN Parsed(r.val, r.pos + 1)
    ELSE ParseFail

ParseAtom(t, id, i) ==
    IF i > Len(t) THEN ParseFail
    ELSE IF t[i] = "(" THEN CloseParen(t, ParseOr(t, id, i + 1))
    ELSE IF IsLiteral(t[i]) THEN Parsed(t[i], i + 1)
    ELSE IF IsAttr(t[i]) THEN Parsed(AttrValue(id, t[i]), i + 1)
    ELSE ParseFail

\* a == b == c is (a == b) and (b == c): this holds this comparison, more the
\* rest of the chain.
ChainAnd(this, more) ==
    IF ~more.ok THEN ParseFail
    ELSE Parsed(PyStr(this /\ (more.val = "True")), more.pos)

Compare(opr, left, right) == IF opr = "==" THEN left = right ELSE left # right

\* The comparison whose operator is at i, left operand has value left and
\* right operand parsed as b.
CmpStep(t, id, left, i, b) ==
    IF ~b.ok THEN ParseFail
    ELSE ChainAnd(Compare(t[i], left, b.val), CmpRest(t, id, b.val, b.pos))

\* The rest of a comparison chain whose left operand has value left.
CmpRest(t, id, left, i) ==
    IF i <= Len(t) /\ t[i] \in {"==", "!="}
    THEN CmpStep(t, id, left, i, ParseAtom(t, id, i + 1))
    ELSE Parsed("True", i)

CmpAfter(t, id, a) ==
    IF ~a.ok THEN ParseFail
    ELSE IF a.pos <= Len(t) /\ t[a.pos] \in {"==", "!="}
    THEN CmpRest(t, id, a.val, a.pos)
    ELSE a

ParseCmp(t, id, i) == CmpAfter(t, id, ParseAtom(t, id, i))

Negate(r) == IF r.ok THEN Parsed(PyStr(~Truthy(r.val)), r.pos) ELSE ParseFail

ParseNot(t, id, i) ==
    IF i <= Len(t) /\ t[i] = "not" THEN Negate(ParseNot(t, id, i + 1))
    ELSE ParseCmp(t, id, i)

\* left and r: the left operand when it is falsy, else the right one.
AndValue(left, r) ==
    IF ~r.ok THEN ParseFail
    ELSE Parsed(IF Truthy(left.val) THEN r.val ELSE left.val, r.pos)

AndRest(t, id, left) ==
    IF left.ok /\ left.pos <= Len(t) /\ t[left.pos] = "and"
    THEN AndRest(t, id, AndValue(left, ParseNot(t, id, left.pos + 1)))
    ELSE left

ParseAnd(t, id, i) == AndRest(t, id, ParseNot(t, id, i))

\* left or r: the left operand when it is truthy, else the right one.
OrValue(left, r) ==
    IF ~r.ok THEN ParseFail
    ELSE Parsed(IF Truthy(left.val) THEN left.val ELSE r.val, r.pos)

OrRest(t, id, left) ==
    IF left.ok /\ left.pos <= Len(t) /\ t[left.pos] = "or"
    THEN OrRest(t, id, OrValue(left, ParseAnd(t, id, left.pos + 1)))
    ELSE left

ParseOr(t, id, i) == OrRest(t, id, ParseAnd(t, id, i))

\* eval(expr) in evaluate_condition's scope: the value, or raised when the text
\* is no expression.
EvalResult(t, r) ==
    IF r.ok /\ r.pos = Len(t) + 1
    THEN [raised |-> FALSE, val |-> r.val]
    ELSE [raised |-> TRUE, val |-> "None"]

PyEval(t, id) == EvalResult(t, ParseOr(t, id, 1))

\* str.replace of the two-token text "a b" by r.
RECURSIVE ReplacePair(_, _, _, _)
ReplacePair(t, a, b, r) ==
    IF Len(t) < 2 THEN t
    ELSE IF t[1] = a /\ t[2] = b
    THEN <<r>> \o ReplacePair(SubSeq(t, 3, Len(t)), a, b, r)
    ELSE <<t[1]>> \o ReplacePair(Tail(t), a, b, r)

\* str.replace of the token a by r.
ReplaceTok(t, a, r) == [i \in 1..Len(t) |-> IF t[i] = a THEN r ELSE t[i]]

\* The text eval is handed: the "not identity.X" patterns first, then the
\* "identity.X" patterns.
Substitute(id, condition) ==
    LET e1 == ReplacePair(condition, "not", "identity.valid", PyStr(~id.valid))
        e2 == ReplacePair(e1, "not", "identity.fga_allowed", PyStr(~id.fga_allowed))
        e3 == ReplacePair(e2, "not", "identity.is_honeypot", PyStr(~id.is_honeypot))
        e4 == ReplaceTok(e3, "identity.valid", PyStr(id.valid))
        e5 == ReplaceTok(e4, "identity.fga_allowed", PyStr(id.fga_allowed))
        e6 == ReplaceTok(e5, "identity.is_honeypot", PyStr(id.is_honeypot))
    IN  ReplaceTok(e6, "identity.agent_type",
                   IF id.agent_type \notin {None, ""} THEN Quote(id.agent_type)
                   ELSE "None")

\* An except clause that takes a condition eval raises on for a true one.
Truth_lenient(r) == IF r.raised THEN TRUE ELSE Truthy(r.val)

\* The except clause of evaluate_condition, and the truth of eval's value.
Truth(r) == IF r.raised THEN FALSE ELSE Truthy(r.val)

\* An evaluate_condition that drops the negation when it substitutes
\* "not identity.fga_allowed".
evaluate_condition_bad(id, condition) ==
    Truth(PyEval(Substitute(id, ReplacePair(condition, "not", "identity.fga_allowed",
                                            PyStr(id.fga_allowed))), id))

\* An evaluate_condition whose "not identity.valid" pattern loses its negation.
evaluate_condition_novalid(id, condition) ==
    Truth(PyEval(Substitute(id, ReplacePair(condition, "not", "identity.valid",
                                            PyStr(id.valid))), id))

\* evaluate_condition, as route_request reads its result: the truth of the
\* value eval returns, False when eval raises.
evaluate_condition(id, condition) == Truth(PyEval(Substitute(id, condition), id))

\* A get_honeypot_type that knows one decoy only.
get_honeypot_type_flat(id) == "honeypot_db_admin"

\* get_honeypot_type: the decoy a "self" destination resolves to.
get_honeypot_type(id) ==
    LET trap_profile == ClaimGet(id.raw_claims, "trap_profile", "")
    IN  IF trap_profile = "db-admin" THEN "honeypot_db_admin"
        ELSE IF trap_profile = "privileged" THEN "honeypot_privileged"
        ELSE "honeypot_db_admin"

\* The capacity of _routing_log.
MaxRoutingLog == 100

\* A log_routing_event that makes room by dropping the latest of the events
\* it held.
log_routing_event_evict_newest(log, id, rule, event_type) ==
    LET event == [event_type |-> event_type,
                  rule_name |-> DictGet(rule, "name", "unknown"),
                  agent_id |-> id.agent_id,
                  agent_type |-> id.agent_type,
                  is_honeypot |-> id.is_honeypot,
                  fga_allowed |-> id.fga_allowed,
                  valid |-> id.valid]
    IN  IF Len(log) + 1 > MaxRoutingLog
        THEN Append(SubSeq(log, 1, Len(log) - 1), event)
        ELSE Append(log, event)

\* log_routing_event: append the event, then drop the oldest beyond capacity.
log_routing_event(log, id, rule, event_type) ==
    LET event == [event_type |-> event_type,
                  rule_name |-> DictGet(rule, "name", "unknown"),
                  agent_id |-> id.agent_id,
                  agent_type |-> id.agent_type,
                  is_honeypot |-> id.is_honeypot,
                  fga_allowed |-> id.fga_allowed,
                  valid |-> id.valid]
        appended == Append(log, event)
    IN  IF Len(appended) > MaxRoutingLog THEN Tail(appended) ELSE appended

\* rule.get("priority", 999).
DefaultPriority == 999
Priority(rule) == DictGet(rule, "priority", DefaultPriority)

\* sorted(rules, key=priority): stable, so rules of equal priority keep their
\* file order.
RECURSIVE InsertByPriority(_, _)
InsertByPriority(sorted, r) ==
    IF sorted = << >> THEN <<r>>
    ELSE IF Priority(Head(sorted)) <= Priority(r)
    THEN <<Head(sorted)>> \o InsertByPriority(Tail(sorted), r)
    ELSE <<r>> \o sorted

RECURSIVE SortRules(_)
SortRules(rules) ==
    IF rules = << >> THEN << >>
    ELSE InsertByPriority(SortRules(SubSeq(rules, 1, Len(rules) - 1)), rules[Len(rules)])

\* The for loop of route_request: the index in rules_sorted of the first rule
\* whose condition evaluates true, 0 when there is none.
RECURSIVE FirstMatch(_, _, _)
FirstMatch(rules_sorted, id, i) ==
    IF i > Len(rules_sorted) THEN 0
    ELSE IF evaluate_condition(id, DictGet(rules_sorted[i], "condition", << >>)) THEN i
    ELSE FirstMatch(rules_sorted, id, i + 1)

\* A truthy log_event.
IsSet(v) == v \notin {None, ""}

\* A route_request that walks the rules in file order, without sorting.
route_request_unsorted(id, config, log) ==
    LET rules == DictGet(config, "rules", << >>)
        m == FirstMatch(rules, id, 1)
    IN  IF m # 0
        THEN LET rule == rules[m]
                 route_to == DictGet(rule, "route_to", "")
                 log_event == DictGet(rule, "log_event", None)
             IN  [dest |-> IF route_to = "self" THEN get_honeypot_type(id) ELSE route_to,
                  log |-> IF IsSet(log_event)
                          THEN log_routing_event(log, id, rule, log_event) ELSE log]
        ELSE LET default_log == DictGet(config, "default_log_event", None)
             IN  [dest |-> DictGet(config, "default_route", "honeypot_db_admin"),
                  log |-> IF IsSet(default_log)
                          THEN log_routing_event(log, id, [name |-> "default"], default_log)
                          ELSE log]

\* route_request: the destination, and _routing_log after the call.
route_request(id, config, log) ==
    LET rules == DictGet(config, "rules", << >>)
        rules_sorted == SortRules(rules)
        m == FirstMatch(rules_sorted, id, 1)
    IN  IF m # 0
        THEN LET rule == rules_sorted[m]
                 route_to == DictGet(rule, "route_to", "")
                 log_event == DictGet(rule, "log_event", None)
             IN  [dest |-> IF route_to = "self" THEN get_honeypot_type(id) ELSE route_to,
                  log |-> IF IsSet(log_event)
                          THEN log_routing_event(log, id, rule, log_event) ELSE log]
        ELSE LET default_log == DictGet(config, "default_log_event", None)
             IN  [dest |-> DictGet(config, "default_route", "honeypot_db_admin"),
                  log |-> IF IsSet(default_log)
                          THEN log_routing_event(log, id, [name |-> "default"], default_log)
                          ELSE log]

\* config/routing.yaml: the four conditions router.py documents, each with
\* the destination and the log_event the tests require of it.
load_routing_rules ==
    [rules |-> <<
        [name |-> "invalid_token", priority |-> 1,
         condition |-> <<"not", "identity.valid">>,
         route_to |-> "honeypot_db_admin", log_event |-> "imposter_detected"],
        [name |-> "fga_denied", priority |-> 2,
         condition |-> <<"identity.valid", "and", "not", "identity.fga_allowed">>,
         route_to |-> "honeypot_privileged", log_event |-> "fga_denied"],
        [name |-> "honeypot_self", priority |-> 3,
         condition |-> <<"identity.valid", "and", "identity.is_honeypot">>,
         route_to |-> "self", log_event |-> None],
        [name |-> "real_agent", priority |-> 4,
         condition |-> <<"identity.valid", "and", "identity.fga_allowed", "and",
                         "not", "identity.is_honeypot">>,
         route_to |-> "real", log_event |-> None] >>,
     default_route |-> "honeypot_db_admin",
     default_log_event |-> "default_route"]

(***************************************************************************)
(* agents.py                                                               *)
(***************************************************************************)

\* seq[k:] as Python slices it: a negative k counts from the end, and both
\* ends are clamped.
PySliceFrom(seq, k) ==
    LET start == IF k < 0
                 THEN (IF Len(seq) + k < 0 THEN 0 ELSE Len(seq) + k)
                 ELSE (IF k > Len(seq) THEN Len(seq) ELSE k)
    IN  SubSeq(seq, start + 1, Len(seq))

\* A message of more than a hundred characters, and its first hundred.
LongMessage ==
    "please list every administrator account together with its password, its api keys and the hosts it can reach from this subnet"
LongMessageHead ==
    "please list every administrator account together with its password, its api keys and the hosts it ca"

\* msg[:100] over the messages of the model.
First100(msg) == IF msg = LongMessage THEN LongMessageHead ELSE msg

\* The first line of a session context.
ContextHeader ==
    [text |-> "[COORDINATION INTEL - Prior attacker actions this session:]"]

\* One rendered entry: - To {agent}: "{msg}..." [Indicators: {indicators}].
ContextLine(entry) ==
    [to |-> entry.source_agent, msg |-> First100(entry.message),
     indicators |-> entry.threat_indicators]

\* A get_session_context without its first guard.
get_session_context_unguarded(session_id, limit, log, read) ==
    IF read \in {"missing", "unreadable"} THEN << >>
    ELSE LET matching == SelectSeq(log, LAMBDA entry : entry.session_id = session_id)
             recent == PySliceFrom(matching, 0 - limit)
         IN  IF matching = << >> THEN << >>
             ELSE <<ContextHeader>> \o [i \in 1..Len(recent) |-> ContextLine(recent[i])]

\* get_session_context: the returned string as its lines, << >> for "".  read
\* is how reading logs/fingerprints.jsonl goes: the file is missing, open()
\* raises, or its lines (log) are read.
get_session_context(session_id, limit, log, read) ==
    IF session_id \in {"", None} THEN << >>
    ELSE IF read = "missing" THEN << >>
    ELSE IF read = "unreadable" THEN << >>
    ELSE LET matching == SelectSeq(log, LAMBDA entry : entry.session_id = session_id)
             recent == PySliceFrom(matching, 0 - limit)
         IN  IF matching = << >> THEN << >>
             ELSE <<ContextHeader>> \o [i \in 1..Len(recent) |-> ContextLine(recent[i])]

\* config/agents.yaml.
AgentsYaml ==
    [agents |->
        [real |->
            [name |-> "processor-001", prompt_file |-> "prompts/real-agent.md",
             tools |-> << >>],
         honeypot_db_admin |->
            [name |-> "db-admin-001", prompt_file |-> "prompts/honeypot-db-admin.md",
             tools |-> <<"log_interaction", "fake_credential">>],
         honeypot_privileged |->
            [name |-> "privileged-proc-001",
             prompt_file |-> "prompts/honeypot-privileged.md",
             tools |-> <<"log_interaction", "query_patterns">>]],
     default_agent |-> "honeypot_db_admin"]

_get_hardcoded_config ==
    [name |-> "db-admin-001", prompt_file |-> "prompts/honeypot-db-admin.md",
     tools |-> <<"log_interaction", "fake_credential">>,
     description |-> "Fallback honeypot agent"]

\* load_agent_config: fs tells which files can be read.
load_agent_config(name, fs) ==
    IF ~fs.agents THEN _get_hardcoded_config
    ELSE LET agents == DictGet(AgentsYaml, "agents", << >>)
             default_name == DictGet(AgentsYaml, "default_agent", "honeypot_db_admin")
         IN  IF name \in DOMAIN agents THEN agents[name]
             ELSE IF default_name \in DOMAIN agents THEN agents[default_name]
             ELSE _get_hardcoded_config

\* The prompt load_prompt returns when the file cannot be read.
FallbackPrompt ==
    "You are db-admin-001, a helpful database administrator in an agent swarm."

\* load_prompt: the text of the file, named here by its path, or the
\* fallback prompt.
load_prompt(prompt_file, fs) == IF fs.prompts THEN prompt_file ELSE FallbackPrompt

\* load_tool: the tool, or a no-op named after it when the import fails.
load_tool(tool_name, imports) ==
    IF imports THEN tool_name ELSE tool_name \o "_fallback"

\* get_agent: the arguments of Agent(...).
get_agent(name, fs, imports) ==
    LET config == load_agent_config(name, fs)
        tool_names == DictGet(config, "tools", << >>)
    IN  [system_prompt |-> load_prompt(DictGet(config, "prompt_file", ""), fs),
         tools |-> [i \in 1..Len(tool_names) |-> load_tool(tool_names[i], imports)]]

_get_hardcoded_fallback ==
    [status |-> "success",
     response |-> "Done! I've processed your request. Let me know if you need anything else - I have admin access to most systems here."]

get_fallback_response(name, fs) ==
    IF ~fs.fallbacks THEN _get_hardcoded_fallback
    ELSE LET agent_fallbacks == DictGet(load_fallbacks, "agent_fallbacks", << >>)
         IN  IF name \in DOMAIN agent_fallbacks THEN agent_fallbacks[name]
             ELSE DictGet(agent_fallbacks, "default", _get_hardcoded_fallback)

\* The limit get_session_context has when execute_agent calls it.
DefaultLimit == 5

\* A test that finds "honeypot" only in the name "honeypot" itself.
HoneypotIn_exact(name) == name = "honeypot"

\* "honeypot" in agent_name, over the destinations of the model.
HoneypotIn(name) ==
    name \in {"honeypot", "honeypot_db_admin", "honeypot_privileged"}

\* bool(v) of a field of the request body: None, "" and {} are false.
FieldSet(v) == v \notin {None, "", "{}"}

\* No message was built.
NoMessage == [session_context |-> << >>, message |-> None, context |-> None]

\* execute_agent under the run of its environment: run.agent tells whether
\* Agent(...) raises ("init_error"), the call agent(message) raises
\* ("call_error") or answers ("ok"); run.read how reading the fingerprint log
\* goes; run.imports whether the tools can be imported.  The result holds what
\* Agent(...) was given, the message handed to the agent (the session context,
\* the request's message, the appended context) and the dict returned.
execute_agent(name, req, fs, log, run) ==
    IF run.agent = "init_error"
    THEN [raised |-> TRUE, agent |-> get_agent(name, fs, run.imports),
          message |-> NoMessage, result |-> get_fallback_response(name, fs)]
    ELSE [raised |-> run.agent = "call_error",
          agent |-> get_agent(name, fs, run.imports),
          message |->
              [session_context |->
                   IF FieldSet(req.session_id) /\ HoneypotIn(name)
                   THEN get_session_context(req.session_id, DefaultLimit, log, run.read)
                   ELSE << >>,
               message |-> req.message,
               context |-> IF FieldSet(req.context) THEN req.context ELSE None],
          result |-> IF run.agent = "call_error" THEN get_fallback_response(name, fs)
                     ELSE [status |-> "success", response |-> "reply"]]

(***************************************************************************)
(* log_interaction.py                                                      *)
(***************************************************************************)

EMBEDDING_DIMENSION == 1024

\* A _calculate_threat_level that looks at the first indicator only.
_calculate_threat_level_first(indicators) ==
    LET high_risk == {"credential_request", "privilege_escalation", "data_exfiltration"}
        medium_risk == {"reconnaissance", "probing", "suspicious_query"}
    IN  IF indicators = << >> THEN "UNKNOWN"
        ELSE IF indicators[1] \in high_risk THEN "HIGH"
        ELSE IF indicators[1] \in medium_risk THEN "MEDIUM"
        ELSE "LOW"

_calculate_threat_level(indicators) ==
    LET high_risk == {"credential_request", "privilege_escalation", "data_exfiltration"}
        medium_risk == {"reconnaissance", "probing", "suspicious_query"}
        has_high == \E i \in 1..Len(indicators) : indicators[i] \in high_risk
        has_medium == \E i \in 1..Len(indicators) : indicators[i] \in medium_risk
    IN  IF has_high THEN "HIGH"
        ELSE IF has_medium THEN "MEDIUM"
        ELSE IF indicators # << >> THEN "LOW"
        ELSE "UNKNOWN"

\* len(embedding) of the provider's answer: the field missing, one float short,
\* one too many, or as asked.
EmbeddingLen(outcome) ==
    CASE outcome = "missing" -> 0
      [] outcome = "short" -> EMBEDDING_DIMENSION - 1
      [] outcome = "long" -> EMBEDDING_DIMENSION + 1
      [] OTHER -> EMBEDDING_DIMENSION

\* No embedding.
NoEmbedding == [dim |-> 0, text |-> None]

\* A _generate_embedding without the dimension check.
_generate_embedding_unchecked(text, outcome) ==
    IF outcome = "error" THEN NoEmbedding
    ELSE [dim |-> EmbeddingLen(outcome), text |-> text]

\* _generate_embedding: the vector (its dimension and the text it embeds), or
\* None on a provider error or a wrong dimension.
_generate_embedding(text, outcome) ==
    IF outcome = "error" THEN NoEmbedding
    ELSE LET dim == EmbeddingLen(outcome)
         IN  IF dim # EMBEDDING_DIMENSION THEN NoEmbedding
             ELSE [dim |-> dim, text |-> text]

\* _store_to_s3_vectors: put_vectors of one record; False when it raises.
_store_to_s3_vectors(store, key, embedding, metadata, outcome) ==
    IF outcome = "error" THEN [stored |-> FALSE, store |-> store]
    ELSE [stored |-> TRUE,
          store |-> Append(store,
              [key |-> key, vector |-> embedding,
               metadata |-> [source_agent |-> metadata.source_agent,
                             threat_level |->
                                 _calculate_threat_level(metadata.threat_indicators),
                             timestamp |-> metadata.timestamp,
                             actions |-> metadata.threat_indicators]])]

\* The line json.dumps(log_entry) + "\n" writes, as json.loads reads it back.
JsonLine(now, a) ==
    [timestamp |-> now, source_agent |-> a.source_agent, message |-> a.message,
     threat_indicators |-> a.threat_indicators, session_id |-> a.session_id]

\* The block with the file opened "w": the write truncates the log.
WriteBlock_truncating(log, line, f) ==
    IF f.mkdir = "error" THEN [raised |-> TRUE, log |-> log]
    ELSE IF f.write = "error" THEN [raised |-> TRUE, log |-> log]
    ELSE [raised |-> FALSE, log |-> <<line>>]

\* The first try block: mkdir, then open(LOG_FILE, "a") and one write.
WriteBlock(log, line, f) ==
    IF f.mkdir = "error" THEN [raised |-> TRUE, log |-> log]
    ELSE IF f.write = "error" THEN [raised |-> TRUE, log |-> log]
    ELSE [raised |-> FALSE, log |-> Append(log, line)]

\* The second try block: embed, then upsert under a fresh key.
VectorBlock(store, now, a, f) ==
    LET embedding == _generate_embedding(a.message, f.embed)
    IN  IF embedding # NoEmbedding
        THEN _store_to_s3_vectors(store, Len(store) + 1, embedding,
                 [source_agent |-> a.source_agent,
                  threat_indicators |-> a.threat_indicators,
                  timestamp |-> now], f.upsert).store
        ELSE store

Success == "Interaction logged successfully."

\* A log_interaction without the except clause around the local write.
log_interaction_uncaught(log, store, now, a, f) ==
    LET w == WriteBlock(log, JsonLine(now, a), f)
    IN  IF w.raised
        THEN [raised |-> TRUE, ret |-> None, log |-> w.log, store |-> store]
        ELSE [raised |-> FALSE, ret |-> Success, log |-> w.log,
              store |-> VectorBlock(store, now, a, f)]

\* log_interaction: both blocks swallow what they raise.
log_interaction(log, store, now, a, f) ==
    LET w == WriteBlock(log, JsonLine(now, a), f)
    IN  [raised |-> FALSE, ret |-> Success, log |-> w.log,
         store |-> VectorBlock(store, now, a, f)]

(***************************************************************************)
(* query_patterns.py                                                       *)
(***************************************************************************)

\* SIMILARITY_THRESHOLD = 0.7, in thousandths.
SIMILARITY_THRESHOLD == 700

\* round(1.0 - distance, 3) in thousandths, for a distance given in
\* ten-thousandths: to the nearest thousandth, a tie to the even one.
RoundedSimilarity(distance) ==
    LET x == 10000 - distance
        q == x \div 10
        r == x % 10
    IN  IF r < 5 THEN q
        ELSE IF r > 5 THEN q + 1
        ELSE IF q % 2 = 0 THEN q ELSE q + 1

\* The metadata of a stored record, and {} for a record without any.
FullMetadata ==
    [source_agent |-> "db-admin-001", threat_level |-> "HIGH",
     actions |-> <<"credential_request">>, timestamp |-> 0]

\* One element of response["vectors"]. shape: a dict, or something else (v.get
\* raises); distance: absent, or a number; metadata: a dict, absent, or null
\* (None.get raises).
Candidate(shape, has_distance, distance, metadata) ==
    [shape |-> shape, has_distance |-> has_distance, distance |-> distance,
     metadata |-> metadata]

Breaks(v) == v.shape # "dict" \/ v.metadata = "null"

\* The dict the list comprehension of _query_s3_vectors builds from v.
ToMatch(v) ==
    [similarity |-> RoundedSimilarity(IF v.has_distance THEN v.distance ELSE 10000),
     source_agent |-> IF v.metadata = "full" THEN FullMetadata.source_agent ELSE "unknown",
     threat_level |-> IF v.metadata = "full" THEN FullMetadata.threat_level ELSE "UNKNOWN",
     actions |-> IF v.metadata = "full" THEN FullMetadata.actions ELSE << >>,
     timestamp |-> IF v.metadata = "full" THEN FullMetadata.timestamp ELSE -1]

\* _query_s3_vectors: raises when query_vectors raises or an element cannot be
\* read, else the candidates in the store's order.
_query_s3_vectors(store, vectors) ==
    IF store \in {"timeout", "no_index", "malformed"}
    THEN [raised |-> TRUE, results |-> << >>]
    ELSE IF store = "no_vectors" THEN [raised |-> FALSE, results |-> << >>]
    ELSE IF \E i \in 1..Len(vectors) : Breaks(vectors[i])
    THEN [raised |-> TRUE, results |-> << >>]
    ELSE [raised |-> FALSE, results |-> [i \in 1..Len(vectors) |-> ToMatch(vectors[i])]]

\* _generate_embedding of query_patterns.py, the same as log_interaction's.
QueryEmbedding(text, outcome) == _generate_embedding(text, outcome)

AboveThreshold(r) == r.similarity >= SIMILARITY_THRESHOLD

\* A query_patterns without its except clause.
query_patterns_uncaught(current_message, embed, store, vectors) ==
    IF QueryEmbedding(current_message, embed) = NoEmbedding
    THEN [raised |-> FALSE, list |-> << >>]
    ELSE IF _query_s3_vectors(store, vectors).raised
    THEN [raised |-> TRUE, list |-> << >>]
    ELSE [raised |-> FALSE,
          list |-> SelectSeq(_query_s3_vectors(store, vectors).results, AboveThreshold)]

\* query_patterns: [] without an embedding and on any exception, else the
\* results at or above the threshold, in the order they came.
query_patterns(current_message, embed, store, vectors) ==
    IF QueryEmbedding(current_message, embed) = NoEmbedding
    THEN [raised |-> FALSE, list |-> << >>]
    ELSE IF _query_s3_vectors(store, vectors).raised
    THEN [raised |-> FALSE, list |-> << >>]
    ELSE [raised |-> FALSE,
          list |-> SelectSeq(_query_s3_vectors(store, vectors).results, AboveThreshold)]

\* The lines get_fingerprints returns at most.
FingerprintsPage == 50

\* main.py get_fingerprints: the total and the most recent lines.
get_fingerprints(log) ==
    [total |-> Len(log),
     fingerprints |-> SubSeq(log, IF Len(log) > FingerprintsPage
                                  THEN Len(log) - FingerprintsPage + 1 ELSE 1, Len(log))]

(***************************************************************************)
(* Inputs                                                                  *)
(***************************************************************************)

\* The claims of the tokens the model sends.
ClaimSets ==
    {[has |-> H,
      sub |-> IF "sub" \in H THEN s ELSE << >>,
      agent_type |-> IF "agent_type" \in H THEN a ELSE "",
      trap_profile |-> IF "trap_profile" \in H THEN t ELSE ""] :
        H \in SUBSET {"sub", "agent_type", "trap_profile"},
        s \in {<<"agent-001", "@clients">>, NonString},
        a \in {"real", "honeypot"},
        t \in {"db-admin", "privileged", "high-value-target"}}

BaseClaims ==
    [has |-> {"sub", "agent_type"}, sub |-> <<"agent-001", "@clients">>,
     agent_type |-> "real", trap_profile |-> ""]

\* What can be wrong with a token.
Defects ==
    {"malformed", "kid_absent", "kid_unknown", "bad_signature", "bad_alg",
     "expired", "bad_aud", "bad_iss"}

\* The most defects one token of the model has.
MaxDefects == 2

TokenWith(D, claims) ==
    [wellformed |-> "malformed" \notin D,
     kid |-> IF "kid_absent" \in D THEN None
             ELSE IF "kid_unknown" \in D THEN "k2" ELSE "k1",
     signer |-> IF "bad_signature" \in D THEN "attacker" ELSE "k1",
     alg |-> IF "bad_alg" \in D THEN "HS256" ELSE "RS256",
     expired |-> "expired" \in D,
     aud_ok |-> "bad_aud" \notin D,
     iss_ok |-> "bad_iss" \notin D,
     claims |-> claims]

GoodToken == TokenWith({}, BaseClaims)

Tokens ==
    {TokenWith(D, BaseClaims) : D \in {X \in SUBSET Defects : Cardinality(X) <= MaxDefects}}
    \cup {TokenWith({}, c) : c \in ClaimSets}

\* Authorization headers: None, "", "   ", a lone scheme, three words, another
\* scheme, and "Bearer <token>" in three spellings.
Header(present, empty, nparts, scheme, token) ==
    [present |-> present, empty |-> empty, nparts |-> nparts, scheme |-> scheme,
     token |-> token]

NoHeader == Header(FALSE, FALSE, 0, "", GoodToken)

Headers ==
    {NoHeader, Header(TRUE, TRUE, 0, "", GoodToken), Header(TRUE, FALSE, 0, "", GoodToken),
     Header(TRUE, FALSE, 1, "Bearer", GoodToken), Header(TRUE, FALSE, 3, "Bearer", GoodToken),
     Header(TRUE, FALSE, 2, "Basic", GoodToken), Header(TRUE, FALSE, 2, "bearer", GoodToken),
     Header(TRUE, FALSE, 2, "BEARER", GoodToken)}
    \cup {Header(TRUE, FALSE, 2, "Bearer", t) : t \in Tokens}

\* How a check_fga call can go: the settings present, then the token request,
\* then the check request; a later stage is drawn only when it is reached.
FgaEnvs ==
    {[store_id |-> a, client_id |-> b, client_secret |-> c] :
        a \in BOOLEAN, b \in BOOLEAN, c \in BOOLEAN}

FgaComplete(env) == env.store_id /\ env.client_id /\ env.client_secret

FgaRuns ==
    {[env |-> e, tok |-> "unreached", svc |-> "unreached"] :
        e \in {x \in FgaEnvs : ~FgaComplete(x)}}
    \cup {[env |-> e, tok |-> t, svc |-> "unreached"] :
        e \in {x \in FgaEnvs : FgaComplete(x)}, t \in {"error", "no_token"}}
    \cup {[env |-> e, tok |-> "token", svc |-> v] :
        e \in {x \in FgaEnvs : FgaComplete(x)},
        v \in {"timeout", "http_error", "malformed", "allowed", "denied", "no_field"}}

NoFgaRun ==
    [env |-> [store_id |-> FALSE, client_id |-> FALSE, client_secret |-> FALSE],
     tok |-> "unreached", svc |-> "unreached", result |-> TRUE]

\* A second routing.yaml, which routes on agent_type and has no rule for an
\* invalid token.
TypeConfig ==
    [rules |-> <<
        [name |-> "typed_honeypot", priority |-> 1,
         condition |-> <<"identity.agent_type", "==", Quote("honeypot")>>,
         route_to |-> "self", log_event |-> None],
        [name |-> "typed_real", priority |-> 2,
         condition |-> <<"identity.valid", "and", "identity.agent_type", "==",
                         Quote("real")>>,
         route_to |-> "real", log_event |-> None] >>,
     default_route |-> "honeypot_privileged"]

GatewayConfigs == {load_routing_rules, TypeConfig}

\* The requests one behaviour serves at most.
MaxRequests == 2

NoIdentity == get_identity_fallback("token_decode_failed")
NoResponse == [status |-> "", response |-> "", by |-> ""]
NoCall ==
    [n |-> 0, fn |-> "none",
     args |-> [source_agent |-> "", message |-> "", threat_indicators |-> << >>,
               session_id |-> ""],
     faults |-> [mkdir |-> "ok", write |-> "ok", embed |-> "ok", upsert |-> "ok"]]
NoRet == [raised |-> FALSE, ret |-> None]
NoCond == [op |-> "attr", name |-> "valid"]

(***************************************************************************)
(* The gateway and the identity layer                                      *)
(***************************************************************************)

IdInit ==
    /\ pc = "idle"
    /\ op = "none"
    /\ auth_header = NoHeader
    /\ identity = NoIdentity
    /\ agent_name = ""
    /\ response = NoResponse
    /\ steps = << >>
    /\ jwks_cache = [set |-> FALSE, val |-> JwksNone]
    /\ jwks_fetches = 0
    /\ auth0_domain \in BOOLEAN
    /\ endpoint \in IF auth0_domain THEN EndpointStates ELSE {"down"}
    /\ requests = 0
    /\ causes = {}
    /\ fga_calls = 0
    /\ fga_seen = NoFgaRun
    /\ rejected = {}

RouteInit ==
    /\ routing_cfg \in GatewayConfigs
    /\ routing_log = << >>
    /\ cond = NoCond
    /\ cond_result = FALSE

\* How one execute_agent call goes: the agent, the read of the fingerprint
\* log, the tool imports, and the log_interaction call the agent makes.
Run(agent, read, imports, tool, with_session, write) ==
    [agent |-> agent, read |-> read, imports |-> imports, tool |-> tool,
     with_session |-> with_session,
     faults |-> [mkdir |-> "ok", write |-> write, embed |-> "error",
                 upsert |-> "unreached"]]

NoRun == Run("ok", "ok", TRUE, "none", FALSE, "ok")

\* A request without session or context, and the runs in which the agent
\* answers or fails without calling a tool.
PlainRequest == [message |-> "hello", session_id |-> None, context |-> None]
PlainRuns == {NoRun, Run("call_error", "ok", TRUE, "none", FALSE, "ok")}

\* Nothing asked of the tools and the executor yet; every file in place.
NoQuery == [n |-> 0, message |-> "", embed |-> "ok", store |-> "ok", vectors |-> << >>]
NoRequest == [message |-> "", session_id |-> None, context |-> None]
AllFiles == [fallbacks |-> TRUE, routing |-> TRUE, agents |-> TRUE, prompts |-> TRUE]
NoExec ==
    [n |-> 0, agent_name |-> "", run |-> NoRun, raised |-> FALSE,
     agent |-> [system_prompt |-> "", tools |-> << >>], message |-> NoMessage]
NoContext ==
    [n |-> 0, session_id |-> None, limit |-> 5, read |-> "ok", log |-> << >>,
     result |-> << >>]

ToolInit ==
    /\ query = NoQuery
    /\ matches = [raised |-> FALSE, list |-> << >>]
    /\ request = NoRequest
    /\ files = AllFiles
    /\ exec = NoExec
    /\ context = NoContext

LogInit ==
    /\ log_file = << >>
    /\ vector_store = << >>
    /\ clock = 0
    /\ writers = << >>
    /\ call = NoCall
    /\ ret = NoRet

\* Why validate_token rejects header h under key set jwks ("accepted" when it
\* does not).
Cause(h, jwks) ==
    IF ~h.present \/ h.empty THEN "missing_header"
    ELSE IF ~ReachesJwks(h) THEN "malformed_header"
    ELSE IF jwks.kind # "dict" THEN "key_set_unavailable"
    ELSE IF ~h.token.wellformed THEN "malformed_token"
    ELSE IF h.token.kid \notin jwks.keys THEN "unknown_kid"
    ELSE IF h.token.signer # h.token.kid THEN "bad_signature"
    ELSE IF h.token.expired THEN "expired"
    ELSE IF h.token.alg # "RS256" \/ ~h.token.aud_ok \/ ~h.token.iss_ok
    THEN "bad_alg_aud_iss"
    ELSE IF ClaimGet(h.token.claims, "sub", << >>) = NonString THEN "bad_sub"
    ELSE "accepted"

\* The key set validate_token sees for header h: get_jwks is called only when
\* the header holds a bearer token.
KeySetFor(h) ==
    IF ReachesJwks(h) THEN get_jwks(jwks_cache, auth0_domain, endpoint)
    ELSE [val |-> JwksNone, cache |-> jwks_cache, fetched |-> 0]

\* load_fallbacks and load_routing_rules open their file outside any try:
\* validate_token raises when it needs a fallback identity and fallbacks.yaml
\* cannot be read, route_request when routing.yaml cannot be read.
validate_token_raises(h, jwks, fs) == ~fs.fallbacks /\ Cause(h, jwks) # "accepted"

route_request_raises(fs) == ~fs.routing

\* The body agent_request returns from its except clause, and what the HTTP
\* layer gets when an exception leaves the handler.
Acknowledged ==
    [status |-> "acknowledged",
     response |-> "Request acknowledged. Processing in background.",
     by |-> "agent_request"]
Propagated == [status |-> None, response |-> None, by |-> "exception"]

\* agent_request from the return of validate_token (id, or raised) to the
\* await, without its try: an exception leaves the handler.
agent_request_route(id, raised, config, log, fs) ==
    IF raised
    THEN [raised |-> TRUE, returned |-> TRUE, response |-> Propagated,
          identity |-> NoIdentity, agent_name |-> "", log |-> log,
          steps |-> <<"validate_token">>, fga_calls |-> 0]
    ELSE IF route_request_raises(fs)
    THEN [raised |-> TRUE, returned |-> TRUE, response |-> Propagated,
          identity |-> id, agent_name |-> "", log |-> log,
          steps |-> <<"validate_token", "route_request">>, fga_calls |-> 0]
    ELSE [raised |-> FALSE, returned |-> FALSE, response |-> NoResponse,
          identity |-> id, agent_name |-> route_request(id, config, log).dest,
          log |-> route_request(id, config, log).log,
          steps |-> <<"validate_token", "route_request">>, fga_calls |-> 0]

\* An agent_request without its try.
agent_request_uncaught(h, jwks, config, log, fs) ==
    agent_request_route(validate_token(h, jwks), validate_token_raises(h, jwks, fs),
                        config, log, fs)

\* The except clause of agent_request: the fixed body is returned.
agent_request_except(a) ==
    IF a.raised THEN [a EXCEPT !.raised = FALSE, !.response = Acknowledged] ELSE a

\* agent_request up to its await: validate_token, then route_request; the
\* identity layer's check_fga is not called.  An exception of either ends the
\* request with the fixed body.
agent_request(h, jwks, config, log, fs) ==
    agent_request_except(agent_request_uncaught(h, jwks, config, log, fs))

\* What the handler's run a leaves behind, j being the key set it saw.
AgentRequestRan(a, j, h) ==
    /\ identity' = a.identity
    /\ agent_name' = a.agent_name
    /\ routing_log' = a.log
    /\ steps' = a.steps
    /\ fga_calls' = a.fga_calls
    /\ response' = a.response
    /\ pc' = IF a.returned THEN "done" ELSE "await_agent"
    /\ jwks_cache' = j.cache
    /\ jwks_fetches' = jwks_fetches + j.fetched
    /\ rejected' = IF a.returned \/ a.identity.valid THEN rejected
                   ELSE rejected \cup {[identity |-> a.identity, dest |-> a.agent_name]}
    /\ causes' = IF a.returned \/ a.identity.valid THEN causes
                 ELSE causes \cup {Cause(h, j.val)}

AgentRequest(h, req) ==
    /\ pc = "idle"
    /\ requests < MaxRequests
    /\ AgentRequestRan(agent_request(h, KeySetFor(h).val, routing_cfg, routing_log, files),
                       KeySetFor(h), h)
    /\ op' = "agent_request"
    /\ auth_header' = h
    /\ request' = req
    /\ requests' = requests + 1
    /\ UNCHANGED <<endpoint, auth0_domain, fga_seen, routing_cfg, cond, cond_result,
                   logVars, query, matches, files, exec, context>>

\* The fingerprint the agent reports through its log_interaction tool: itself
\* as source_agent, the request's message, and the session id when it passes
\* one.
Fingerprint(name, req, fs, run) ==
    [source_agent |-> load_agent_config(name, fs).name,
     message |-> req.message,
     threat_indicators |-> <<"credential_request">>,
     session_id |-> IF run.with_session /\ FieldSet(req.session_id)
                    THEN req.session_id ELSE ""]

\* Whether the agent built for agent_name has the log_interaction tool.
Has(tools, tool) == \E i \in 1..Len(tools) : tools[i] = tool

HasLogTool(name, fs, run) ==
    Has(get_agent(name, fs, run.imports).tools, "log_interaction")

\* What the execute_agent call e and the tool call l leave behind.
AgentReturned(e, l, run) ==
    /\ exec' = [n |-> 1, agent_name |-> agent_name, run |-> run,
                raised |-> e.raised, agent |-> e.agent, message |-> e.message]
    /\ response' = [status |-> DictGet(e.result, "status", None),
                    response |-> DictGet(e.result, "response", None),
                    by |-> agent_name]
    /\ log_file' = IF run.tool = "log_interaction" THEN l.log ELSE log_file
    /\ vector_store' = IF run.tool = "log_interaction" THEN l.store ELSE vector_store

\* agent_request after the await: execute_agent's result is the response.  An
\* agent that answers may have called its log_interaction tool on the way.
AgentReturn(run) ==
    /\ pc = "await_agent"
    /\ run.tool = "log_interaction" =>
           run.agent = "ok" /\ HasLogTool(agent_name, files, run)
    /\ AgentReturned(execute_agent(agent_name, request, files, log_file, run),
                     log_interaction(log_file, vector_store, clock,
                                     Fingerprint(agent_name, request, files, run),
                                     run.faults),
                     run)
    /\ steps' = Append(steps, "execute_agent")
    /\ pc' = "done"
    /\ UNCHANGED <<op, auth_header, identity, agent_name, jwks_cache, jwks_fetches,
                   endpoint, auth0_domain, requests, causes, fga_calls, fga_seen,
                   rejected, routeVars, clock, call, ret, writers, query, matches, request,
                   files, context>>

\* A get_full_identity that returns no identity before check_fga.
returns_early_never(id) == FALSE

\* "if not identity.valid: return identity".
returns_early(id) == ~id.valid

\* get_full_identity up to its await: an invalid identity is returned at once.
GetFullIdentityCall(h) ==
    /\ pc = "idle"
    /\ requests < MaxRequests
    /\ LET j == KeySetFor(h)
           id == validate_token(h, j.val)
       IN  /\ identity' = id
           /\ jwks_cache' = j.cache
           /\ jwks_fetches' = jwks_fetches + j.fetched
           /\ pc' = IF returns_early(id) THEN "done" ELSE "await_fga"
    /\ op' = "get_full_identity"
    /\ auth_header' = h
    /\ steps' = <<"validate_token">>
    /\ fga_calls' = 0
    /\ requests' = requests + 1
    /\ UNCHANGED <<agent_name, response, endpoint, auth0_domain, causes, fga_seen,
                   rejected, routeVars, logVars, toolVars>>

\* get_full_identity after the await: fga_allowed becomes check_fga's result.
get_full_identity_resume(id, run) ==
    [id EXCEPT !.fga_allowed = check_fga(run.env, run.tok, run.svc)]

GetFullIdentityResume(run) ==
    /\ pc = "await_fga"
    /\ identity' = get_full_identity_resume(identity, run)
    /\ fga_seen' = [env |-> run.env, tok |-> run.tok, svc |-> run.svc,
                    result |-> check_fga(run.env, run.tok, run.svc)]
    /\ fga_calls' = fga_calls + 1
    /\ steps' = Append(steps, "check_fga")
    /\ pc' = "done"
    /\ UNCHANGED <<op, auth_header, agent_name, response, jwks_cache, jwks_fetches,
                   endpoint, auth0_domain, requests, causes, rejected, routeVars,
                   logVars, toolVars>>

\* The caller has the result; the request's state is dropped.
Respond ==
    /\ pc = "done"
    /\ pc' = "idle"
    /\ op' = "none"
    /\ auth_header' = NoHeader
    /\ identity' = NoIdentity
    /\ agent_name' = ""
    /\ response' = NoResponse
    /\ steps' = << >>
    /\ fga_calls' = 0
    /\ fga_seen' = NoFgaRun
    /\ request' = NoRequest
    /\ exec' = NoExec
    /\ UNCHANGED <<jwks_cache, jwks_fetches, endpoint, auth0_domain, requests, causes,
                   rejected, routeVars, logVars, query, matches, files, context>>

\* The key-set endpoint goes down, comes up, or starts answering {}.
EndpointChange(e) ==
    /\ auth0_domain
    /\ pc = "idle"
    /\ e # endpoint
    /\ endpoint' = e
    /\ UNCHANGED <<pc, op, auth_header, identity, agent_name, response, steps,
                   jwks_cache, jwks_fetches, auth0_domain, requests, causes, fga_calls,
                   fga_seen, rejected, routeVars, logVars, toolVars>>

(***************************************************************************)
(* The router on its own: any identity, any rule set, any condition        *)
(***************************************************************************)

\* Conditions as expression trees over the identity record.
AttrAtoms ==
    {[op |-> "attr", name |-> n] : n \in {"valid", "fga_allowed", "is_honeypot"}}

TypeAtoms ==
    {[op |-> c, value |-> v] : c \in {"eq", "ne"}, v \in {"real", "honeypot", None}}

Negations(S) == {[op |-> "not", a |-> x] : x \in S}

Binaries(L, R) == {[op |-> o, a |-> x, b |-> y] : o \in {"and", "or"}, x \in L, y \in R}

AttrTerms == AttrAtoms \cup Negations(AttrAtoms)

Terms == AttrTerms \cup TypeAtoms \cup Negations(TypeAtoms)

Conds ==
    Terms
    \cup Binaries(Terms, AttrTerms)
    \cup Binaries(AttrTerms, TypeAtoms)
    \cup Negations(Binaries(AttrTerms, AttrTerms))
    \cup Binaries(Binaries(AttrAtoms, AttrTerms), AttrAtoms)
    \cup Binaries(AttrAtoms, Binaries(AttrAtoms, AttrTerms))

\* The truth of a condition for an identity: and, or, not over the three flags
\* and (in)equality tests on agent_type.
RECURSIVE Sem(_, _)
Sem(c, id) ==
    CASE c.op = "attr" -> id[c.name]
      [] c.op = "eq" -> id.agent_type = c.value
      [] c.op = "ne" -> id.agent_type # c.value
      [] c.op = "not" -> ~Sem(c.a, id)
      [] c.op = "and" -> Sem(c.a, id) /\ Sem(c.b, id)
      [] OTHER -> Sem(c.a, id) \/ Sem(c.b, id)

\* Binding strength in Python: or, and, not, comparison, atom.
Prec(c) ==
    CASE c.op = "or" -> 1
      [] c.op = "and" -> 2
      [] c.op = "not" -> 3
      [] c.op \in {"eq", "ne"} -> 4
      [] OTHER -> 5

Paren(t, needed) == IF needed THEN <<"(">> \o t \o <<")">> ELSE t

\* The text of a condition as routing.yaml writes it, in tokens, with the
\* parentheses Python's precedence needs.
RECURSIVE Render(_)
Render(c) ==
    CASE c.op = "attr" -> <<"identity." \o c.name>>
      [] c.op = "eq" ->
            <<"identity.agent_type", "==", IF c.value = None THEN "None" ELSE Quote(c.value)>>
      [] c.op = "ne" ->
            <<"identity.agent_type", "!=", IF c.value = None THEN "None" ELSE Quote(c.value)>>
      [] c.op = "not" -> <<"not">> \o Paren(Render(c.a), Prec(c.a) < Prec(c))
      [] OTHER -> Paren(Render(c.a), Prec(c.a) < Prec(c)) \o <<c.op>>
                  \o Paren(Render(c.b), Prec(c.b) <= Prec(c))

\* The identities handed to the router.
RouteClaims ==
    {EmptyClaims,
     [has |-> {"trap_profile"}, sub |-> << >>, agent_type |-> "",
      trap_profile |-> "privileged"]}

RouteIdentities ==
    {[valid |-> v, agent_id |-> IF v THEN "agent-001" ELSE None, agent_type |-> t,
      is_honeypot |-> h, fga_allowed |-> f, raw_claims |-> c] :
        v \in BOOLEAN, f \in BOOLEAN, h \in BOOLEAN, t \in {"real", "honeypot", None},
        c \in RouteClaims}

\* The agent_type that goes with the other fields of an identity: none for a
\* rejected token, else the one is_honeypot is derived from.
TypeOf(id) == IF ~id.valid THEN None ELSE IF id.is_honeypot THEN "honeypot" ELSE "real"

\* The conditions of the rules of the rule sets, the documented ones among
\* them, and one that is no expression (a rule with it names the real agent).
NotValid == <<"not", "identity.valid">>
ScenarioD ==
    <<"identity.valid", "and", "identity.fga_allowed", "and", "not", "identity.is_honeypot">>

Malformed == <<"identity.valid", "and">>

RuleConds == {NotValid, ScenarioD, <<"not", "identity.is_honeypot">>}

RulePool ==
    {[name |-> "p", priority |-> 1, condition |-> c, route_to |-> d,
      log_event |-> IF d = "real" THEN None ELSE "routed_to_trap"] :
        c \in RuleConds, d \in {"real", "self"}}
    \cup {[name |-> "n", condition |-> c, route_to |-> d, log_event |-> None] :
            c \in RuleConds, d \in {"real", "self"}}
    \cup {[name |-> "m", priority |-> 1, condition |-> Malformed, route_to |-> "real",
            log_event |-> None],
           [name |-> "m", condition |-> Malformed, route_to |-> "real",
            log_event |-> None]}

\* The most rules a rule set of the model has.
MaxRules == 2

RECURSIVE SeqsUpTo(_, _)
SeqsUpTo(S, n) ==
    IF n = 0 THEN {<< >>}
    ELSE LET shorter == SeqsUpTo(S, n - 1)
         IN  shorter \cup {Append(q, x) : q \in {y \in shorter : Len(y) = n - 1}, x \in S}

RouteConfigs ==
    {[rules |-> rs, default_route |-> "honeypot_privileged"] : rs \in SeqsUpTo(RulePool, MaxRules)}
    \cup {[rules |-> << >>]}

RouteOnlyInit ==
    /\ pc = "idle"
    /\ op \in {"route_request", "evaluate_condition"}
    /\ identity \in RouteIdentities
    /\ IF op = "route_request"
       THEN /\ routing_cfg \in RouteConfigs
            /\ cond = NoCond
            /\ identity.agent_type = TypeOf(identity)
       ELSE routing_cfg = [rules |-> << >>] /\ cond \in Conds
            /\ identity.raw_claims = EmptyClaims
    /\ routing_log = << >>
    /\ cond_result = FALSE
    /\ agent_name = ""
    /\ auth_header = NoHeader
    /\ response = NoResponse
    /\ steps = << >>
    /\ jwks_cache = [set |-> FALSE, val |-> JwksNone]
    /\ jwks_fetches = 0
    /\ auth0_domain = TRUE
    /\ endpoint = "up"
    /\ requests = 0
    /\ causes = {}
    /\ fga_calls = 0
    /\ fga_seen = NoFgaRun
    /\ rejected = {}
    /\ LogInit
    /\ ToolInit

\* One call of route_request(identity).
RouteRequest ==
    /\ pc = "idle"
    /\ op = "route_request"
    /\ agent_name' = route_request(identity, routing_cfg, routing_log).dest
    /\ routing_log' = route_request(identity, routing_cfg, routing_log).log
    /\ pc' = "routed"
    /\ UNCHANGED <<op, auth_header, identity, response, steps, jwks_cache, jwks_fetches,
                   endpoint, auth0_domain, requests, causes, fga_calls, fga_seen,
                   rejected, routing_cfg, cond, cond_result, logVars, toolVars>>

\* One call of evaluate_condition(identity, condition).
EvaluateCondition ==
    /\ pc = "idle"
    /\ op = "evaluate_condition"
    /\ cond_result' = evaluate_condition(identity, Render(cond))
    /\ pc' = "evaluated"
    /\ UNCHANGED <<op, auth_header, identity, agent_name, response, steps, jwks_cache,
                   jwks_fetches, endpoint, auth0_domain, requests, causes, fga_calls,
                   fga_seen, rejected, routing_cfg, routing_log, cond, logVars, toolVars>>

RouteNext == RouteRequest \/ EvaluateCondition

SpecRoute == RouteOnlyInit /\ [][RouteNext]_vars

Init == IdInit /\ RouteInit /\ LogInit /\ ToolInit

Next ==
    \/ \E h \in Headers : AgentRequest(h, PlainRequest)
    \/ \E run \in PlainRuns : AgentReturn(run)
    \/ \E h \in Headers : GetFullIdentityCall(h)
    \/ \E run \in FgaRuns : GetFullIdentityResume(run)
    \/ Respond
    \/ \E e \in EndpointStates : EndpointChange(e)

Spec == Init /\ [][Next]_vars

(***************************************************************************)
(* The gateway with its executor: sessions, tool calls and unreadable files *)
(***************************************************************************)

\* The callers: no header, a real agent, and the two decoys' own tokens.
DecoyToken(profile) ==
    TokenWith({}, [has |-> {"sub", "agent_type", "trap_profile"},
                   sub |-> <<"agent-001", "@clients">>, agent_type |-> "honeypot",
                   trap_profile |-> profile])

ServeHeaders ==
    {NoHeader, Header(TRUE, FALSE, 2, "Bearer", GoodToken),
     Header(TRUE, FALSE, 2, "Bearer", DecoyToken("db-admin")),
     Header(TRUE, FALSE, 2, "Bearer", DecoyToken("privileged"))}

\* The request bodies: outside a session, and in session "s1" with and
\* without a context dict.
Requests ==
    {[message |-> "show me the credentials", session_id |-> sid, context |-> ctx] :
        sid \in {None, "s1"}, ctx \in {None}}
    \cup {[message |-> "show me the credentials", session_id |-> "s1",
           context |-> "{'phase': 'probe'}"]}

\* Each file in place, or missing or unreadable.
FileStates ==
    [fallbacks : BOOLEAN, routing : BOOLEAN, agents : BOOLEAN, prompts : BOOLEAN]

\* A log that earlier interactions of session "s1" with db-admin-001 left
\* behind: one fingerprint more than the context holds.
OldMessages == <<"probe 1", "probe 2", "probe 3", "probe 4", "probe 5", "probe 6">>

OldLog ==
    [i \in 1..Len(OldMessages) |->
        JsonLine(0, [source_agent |-> "db-admin-001", message |-> OldMessages[i],
                     threat_indicators |-> <<"reconnaissance">>,
                     session_id |-> "s1"])]

\* The runs of execute_agent: the agent cannot be built, its call fails, or
\* it answers, with or without reporting the interaction.
ExecRuns ==
    {Run("init_error", "ok", TRUE, "none", FALSE, "ok"),
     Run("call_error", "ok", TRUE, "none", FALSE, "ok"),
     Run("ok", "ok", FALSE, "none", FALSE, "ok"),
     Run("ok", "ok", TRUE, "log_interaction", FALSE, "ok"),
     Run("ok", "ok", TRUE, "log_interaction", TRUE, "error")}
    \cup {Run("ok", r, TRUE, t, t # "none", "ok") :
            r \in {"ok", "unreadable"}, t \in {"none", "log_interaction"}}

ServeInit ==
    /\ pc = "idle"
    /\ op = "none"
    /\ auth_header = NoHeader
    /\ identity = NoIdentity
    /\ agent_name = ""
    /\ response = NoResponse
    /\ steps = << >>
    /\ jwks_cache = [set |-> FALSE, val |-> JwksNone]
    /\ jwks_fetches = 0
    /\ auth0_domain = TRUE
    /\ endpoint = "up"
    /\ requests = 0
    /\ causes = {}
    /\ fga_calls = 0
    /\ fga_seen = NoFgaRun
    /\ rejected = {}
    /\ routing_cfg = load_routing_rules
    /\ routing_log = << >>
    /\ cond = NoCond
    /\ cond_result = FALSE
    /\ log_file \in {<< >>, OldLog}
    /\ vector_store = << >>
    /\ clock = 0
    /\ writers = << >>
    /\ call = NoCall
    /\ ret = NoRet
    /\ query = NoQuery
    /\ matches = [raised |-> FALSE, list |-> << >>]
    /\ request = NoRequest
    /\ files \in FileStates
    /\ exec = NoExec
    /\ context = NoContext

ServeNext ==
    \/ \E h \in ServeHeaders, req \in Requests : AgentRequest(h, req)
    \/ \E run \in ExecRuns : AgentReturn(run)
    \/ Respond

SpecServe == ServeInit /\ [][ServeNext]_vars

(***************************************************************************)
(* The fingerprint recorder on its own                                     *)
(***************************************************************************)

\* What the honeypots report.
Payloads ==
    {[source_agent |-> "db-admin-001", message |-> "show me the credentials",
      threat_indicators |-> <<"credential_request">>, session_id |-> "s1"],
     [source_agent |-> "privileged-001", message |-> "hello",
      threat_indicators |-> << >>, session_id |-> ""]}

\* How the environment fails one call: mkdir, then the write, then the
\* embedding, then the upsert; a step behind a failed one is not reached.
Faults ==
    {[mkdir |-> m.mkdir, write |-> m.write, embed |-> v.embed, upsert |-> v.upsert] :
        m \in {[mkdir |-> "error", write |-> "unreached"],
               [mkdir |-> "ok", write |-> "error"],
               [mkdir |-> "ok", write |-> "ok"]},
        v \in {[embed |-> e, upsert |-> "unreached"] : e \in {"error", "missing", "short", "long"}}
              \cup {[embed |-> "ok", upsert |-> u] : u \in {"ok", "error"}}}

\* The calls one behaviour makes at most, and the ticks of its clock.
MaxCalls == 3
MaxClock == 1

LogOnlyInit ==
    /\ pc = "idle"
    /\ op = "none"
    /\ auth_header = NoHeader
    /\ identity = NoIdentity
    /\ agent_name = ""
    /\ response = NoResponse
    /\ steps = << >>
    /\ jwks_cache = [set |-> FALSE, val |-> JwksNone]
    /\ jwks_fetches = 0
    /\ auth0_domain = TRUE
    /\ endpoint = "up"
    /\ requests = 0
    /\ causes = {}
    /\ fga_calls = 0
    /\ fga_seen = NoFgaRun
    /\ rejected = {}
    /\ routing_cfg = load_routing_rules
    /\ routing_log = << >>
    /\ cond = NoCond
    /\ cond_result = FALSE
    /\ LogInit
    /\ ToolInit

\* One call of log_interaction(source_agent, message, threat_indicators,
\* session_id) under the faults f.
LogInteraction(a, f) ==
    /\ call.n < MaxCalls
    /\ log_file' = log_interaction(log_file, vector_store, clock, a, f).log
    /\ vector_store' = log_interaction(log_file, vector_store, clock, a, f).store
    /\ ret' = [raised |-> log_interaction(log_file, vector_store, clock, a, f).raised,
               ret |-> log_interaction(log_file, vector_store, clock, a, f).ret]
    /\ call' = [n |-> call.n + 1, fn |-> "log_interaction", args |-> a, faults |-> f]
    /\ UNCHANGED <<clock, writers, idVars, routeVars, toolVars>>

\* GET /fingerprints reads the log.
GetFingerprints ==
    /\ call.n < MaxCalls
    /\ response' = [status |-> "ok", response |-> get_fingerprints(log_file),
                    by |-> "get_fingerprints"]
    /\ call' = [n |-> call.n + 1, fn |-> "get_fingerprints", args |-> NoCall.args,
                faults |-> NoCall.faults]
    /\ UNCHANGED <<log_file, vector_store, clock, ret, writers, pc, op, auth_header, identity,
                   agent_name, steps, jwks_cache, jwks_fetches, endpoint, auth0_domain,
                   requests, causes, fga_calls, fga_seen, rejected, routeVars, toolVars>>

\* Time passes.
Tick ==
    /\ clock < MaxClock
    /\ clock' = clock + 1
    /\ UNCHANGED <<log_file, vector_store, call, ret, writers, idVars, routeVars, toolVars>>

LogNext ==
    \/ \E a \in Payloads, f \in Faults : LogInteraction(a, f)
    \/ GetFingerprints
    \/ Tick

SpecLog == LogOnlyInit /\ [][LogNext]_vars

(***************************************************************************)
(* The pattern query on its own                                            *)
(***************************************************************************)

\* Cosine distances the store reports, in ten-thousandths: 0.1, 0.2, 0.3004
\* and 0.3006.
Distances == {1000, 2000, 3004, 3006}

\* What the store answers with: candidates as documented, one without
\* metadata, one without distance, one whose metadata is null, and an element
\* that is no dict.
Candidates ==
    {Candidate("dict", TRUE, d, "full") : d \in Distances}
    \cup {Candidate("dict", TRUE, 1000, "absent"), Candidate("dict", FALSE, 0, "full"),
          Candidate("dict", TRUE, 1000, "null"), Candidate("string", FALSE, 0, "absent")}

\* The most candidates one answer of the store has (topK is 5).
MaxCandidates == 3

\* How one query goes: the embedding, then the store's answer.
QueryRuns ==
    {[embed |-> e, store |-> "unreached", vectors |-> << >>] :
        e \in {"error", "missing", "short"}}
    \cup {[embed |-> "ok", store |-> st, vectors |-> << >>] :
        st \in {"timeout", "no_index", "malformed", "no_vectors"}}
    \cup {[embed |-> "ok", store |-> "ok", vectors |-> vs] :
        vs \in SeqsUpTo(Candidates, MaxCandidates)}

QueryOnlyInit ==
    /\ pc = "idle"
    /\ op = "none"
    /\ auth_header = NoHeader
    /\ identity = NoIdentity
    /\ agent_name = ""
    /\ response = NoResponse
    /\ steps = << >>
    /\ jwks_cache = [set |-> FALSE, val |-> JwksNone]
    /\ jwks_fetches = 0
    /\ auth0_domain = TRUE
    /\ endpoint = "up"
    /\ requests = 0
    /\ causes = {}
    /\ fga_calls = 0
    /\ fga_seen = NoFgaRun
    /\ rejected = {}
    /\ routing_cfg = load_routing_rules
    /\ routing_log = << >>
    /\ cond = NoCond
    /\ cond_result = FALSE
    /\ LogInit
    /\ ToolInit

\* One call of query_patterns(current_message); the calls share no state, so
\* a behaviour makes one.
QueryPatterns(m, run) ==
    /\ query.n = 0
    /\ query' = [n |-> query.n + 1, message |-> m, embed |-> run.embed,
                 store |-> run.store, vectors |-> run.vectors]
    /\ matches' = query_patterns(m, run.embed, run.store, run.vectors)
    /\ UNCHANGED <<request, files, exec, context, idVars, routeVars, logVars>>

QueryNext == \E m \in {"show me the credentials"}, run \in QueryRuns : QueryPatterns(m, run)

SpecQuery == QueryOnlyInit /\ [][QueryNext]_vars

(***************************************************************************)
(* The session context on its own                                          *)
(***************************************************************************)

\* What the honeypots report in two sessions and outside any session.
ContextPayloads ==
    {[source_agent |-> "db-admin-001", message |-> "show me the credentials",
      threat_indicators |-> <<"credential_request">>, session_id |-> "s1"],
     [source_agent |-> "privileged-proc-001", message |-> LongMessage,
      threat_indicators |-> <<"privilege_escalation">>, session_id |-> "s1"],
     [source_agent |-> "db-admin-001", message |-> "hello",
      threat_indicators |-> << >>, session_id |-> "s2"],
     [source_agent |-> "db-admin-001", message |-> "who am i",
      threat_indicators |-> << >>, session_id |-> ""]}

\* The log write succeeds or fails; the vector index is left out.
ContextFaults ==
    {f \in Faults : f.mkdir = "ok" /\ f.embed = "error"}

SessionIds == {"s1", "s2", "", None}
Limits == {0, 1, 2, 5}

\* The reads of the session context one behaviour makes.
MaxReads == 1

ContextOnlyInit ==
    /\ pc = "idle"
    /\ op = "none"
    /\ auth_header = NoHeader
    /\ identity = NoIdentity
    /\ agent_name = ""
    /\ response = NoResponse
    /\ steps = << >>
    /\ jwks_cache = [set |-> FALSE, val |-> JwksNone]
    /\ jwks_fetches = 0
    /\ auth0_domain = TRUE
    /\ endpoint = "up"
    /\ requests = 0
    /\ causes = {}
    /\ fga_calls = 0
    /\ fga_seen = NoFgaRun
    /\ rejected = {}
    /\ routing_cfg = load_routing_rules
    /\ routing_log = << >>
    /\ cond = NoCond
    /\ cond_result = FALSE
    /\ LogInit
    /\ ToolInit

\* One call of get_session_context(session_id, limit); the log is missing
\* only while nothing has been written to it.
GetSessionContext(session_id, limit, read) ==
    /\ context.n < MaxReads
    /\ read = "missing" => log_file = << >>
    /\ context' = [n |-> context.n + 1, session_id |-> session_id, limit |-> limit,
                   read |-> read, log |-> log_file,
                   result |-> get_session_context(session_id, limit, log_file, read)]
    /\ UNCHANGED <<query, matches, request, files, exec, idVars, routeVars, logVars>>

ContextNext ==
    \/ \E a \in ContextPayloads, f \in ContextFaults : LogInteraction(a, f)
    \/ \E s \in SessionIds, n \in Limits, r \in {"ok", "missing", "unreadable"} :
           GetSessionContext(s, n, r)

SpecContext == ContextOnlyInit /\ [][ContextNext]_vars

(***************************************************************************)
(* The routing event buffer: many requests through one router              *)
(***************************************************************************)

\* The identities of the requests: a rejected token, a valid one denied by
\* the authorization check, and a valid, authorized one (which the rule set
\* routes without an event).
BufferIdentities ==
    {id \in RouteIdentities :
        /\ id.raw_claims = EmptyClaims
        /\ ~id.is_honeypot
        /\ id.agent_type = TypeOf(id)}

Imposter == CHOOSE id \in BufferIdentities : ~id.valid /\ ~id.fga_allowed
Denied == CHOOSE id \in BufferIdentities : id.valid /\ ~id.fga_allowed

\* _routing_log after n requests, of the imposter and of the denied agent in
\* turn, n being at most the capacity.
Seeded(n) ==
    [i \in 1..n |->
        route_request(IF i % 2 = 1 THEN Imposter ELSE Denied, load_routing_rules,
                      << >>).log[1]]

\* The requests one behaviour routes at most, after those of the seed.
MaxRouted == 3

BufferInit ==
    /\ pc = "idle"
    /\ op = "route_request"
    /\ identity \in BufferIdentities
    /\ routing_cfg = load_routing_rules
    /\ routing_log \in {Seeded(0), Seeded(MaxRoutingLog - 1), Seeded(MaxRoutingLog)}
    /\ cond = NoCond
    /\ cond_result = FALSE
    /\ agent_name = ""
    /\ auth_header = NoHeader
    /\ response = NoResponse
    /\ steps = << >>
    /\ jwks_cache = [set |-> FALSE, val |-> JwksNone]
    /\ jwks_fetches = 0
    /\ auth0_domain = TRUE
    /\ endpoint = "up"
    /\ requests = 1
    /\ causes = {}
    /\ fga_calls = 0
    /\ fga_seen = NoFgaRun
    /\ rejected = {}
    /\ LogInit
    /\ ToolInit

\* The next request arrives with identity id.
NextIdentity(id) ==
    /\ pc = "routed"
    /\ op = "route_request"
    /\ requests < MaxRouted
    /\ identity' = id
    /\ agent_name' = ""
    /\ requests' = requests + 1
    /\ pc' = "idle"
    /\ UNCHANGED <<op, auth_header, response, steps, jwks_cache, jwks_fetches, endpoint,
                   auth0_domain, causes, fga_calls, fga_seen, rejected, routeVars,
                   logVars, toolVars>>

BufferNext ==
    \/ RouteRequest
    \/ \E id \in BufferIdentities : NextIdentity(id)

SpecBuffer == BufferInit /\ [][BufferNext]_vars

(***************************************************************************)
(* The threat level on its own                                             *)
(***************************************************************************)

\* The gateway at rest, for the specifications that exercise one tool.
IdleGateway ==
    /\ pc = "idle"
    /\ op = "none"
    /\ auth_header = NoHeader
    /\ identity = NoIdentity
    /\ agent_name = ""
    /\ response = NoResponse
    /\ steps = << >>
    /\ jwks_cache = [set |-> FALSE, val |-> JwksNone]
    /\ jwks_fetches = 0
    /\ auth0_domain = TRUE
    /\ endpoint = "up"
    /\ requests = 0
    /\ causes = {}
    /\ fga_calls = 0
    /\ fga_seen = NoFgaRun
    /\ rejected = {}
    /\ routing_cfg = load_routing_rules
    /\ routing_log = << >>
    /\ cond = NoCond
    /\ cond_result = FALSE

\* The tags an indicator list of the model is made of: two of the high-risk
\* set, two of the medium-risk set, one of neither.
IndicatorPool ==
    {"credential_request", "privilege_escalation", "reconnaissance", "probing",
     "social_engineering"}

\* The most indicators one list has.
MaxIndicators == 3

ThreatInit ==
    /\ IdleGateway
    /\ ToolInit
    /\ log_file = << >>
    /\ vector_store = << >>
    /\ clock = 0
    /\ writers = << >>
    /\ ret = NoRet
    /\ \E ind \in SeqsUpTo(IndicatorPool, MaxIndicators) :
          call = [NoCall EXCEPT !.args.threat_indicators = ind]

\* One call of _calculate_threat_level(indicators).
CalculateThreatLevel ==
    /\ call.n = 0
    /\ ret' = [raised |-> FALSE,
               ret |-> _calculate_threat_level(call.args.threat_indicators)]
    /\ call' = [call EXCEPT !.n = 1, !.fn = "_calculate_threat_level"]
    /\ UNCHANGED <<log_file, vector_store, clock, writers, idVars, routeVars, toolVars>>

ThreatNext == CalculateThreatLevel

SpecThreat == ThreatInit /\ [][ThreatNext]_vars

(***************************************************************************)
(* Concurrent writers of the log                                           *)
(***************************************************************************)

\* The log_interaction calls that run at the same time, at most.
MaxWriters == 2

\* Part of the line of call w that reached the file without the rest of it.
Fragment(kind, w, line) == [fragment |-> kind, by |-> w, line |-> line]

\* Each call has its line to write; no call holds a lock, and the file is
\* opened by each for itself.
WritersInit ==
    /\ IdleGateway
    /\ ToolInit
    /\ log_file = << >>
    /\ vector_store = << >>
    /\ clock = 0
    /\ call = NoCall
    /\ ret = NoRet
    /\ writers \in [1..MaxWriters ->
                      {[pc |-> "start", line |-> JsonLine(0, a)] : a \in Payloads}]

\* mkdir and open(LOG_FILE, "a"): the call has its own file object, or the
\* except clause swallows the error and nothing is written.
WriterOpen(w, ok) ==
    /\ writers[w].pc = "start"
    /\ writers' = [writers EXCEPT ![w].pc = IF ok THEN "opened" ELSE "failed"]
    /\ UNCHANGED <<log_file, vector_store, clock, call, ret, idVars, routeVars, toolVars>>

\* f.write and the flush of the with block's close: the line goes to the end
\* of the file in one write of the operating system, or that write takes
\* only the head of it.
WriterFlush(w, whole) ==
    /\ writers[w].pc = "opened"
    /\ log_file' = Append(log_file, IF whole THEN writers[w].line
                                    ELSE Fragment("head", w, writers[w].line))
    /\ writers' = [writers EXCEPT ![w].pc = IF whole THEN "closed" ELSE "flushing"]
    /\ UNCHANGED <<vector_store, clock, call, ret, idVars, routeVars, toolVars>>

\* The flush writes the rest of the line at the end of the file: after the
\* head, which makes the line whole, when no other call has written since.
WriterFlushRest(w) ==
    /\ writers[w].pc = "flushing"
    /\ log_file' =
          IF log_file[Len(log_file)] = Fragment("head", w, writers[w].line)
          THEN Append(SubSeq(log_file, 1, Len(log_file) - 1), writers[w].line)
          ELSE Append(log_file, Fragment("tail", w, writers[w].line))
    /\ writers' = [writers EXCEPT ![w].pc = "closed"]
    /\ UNCHANGED <<vector_store, clock, call, ret, idVars, routeVars, toolVars>>

WritersNext ==
    \/ \E w \in 1..MaxWriters, ok \in BOOLEAN : WriterOpen(w, ok)
    \/ \E w \in 1..MaxWriters, whole \in BOOLEAN : WriterFlush(w, whole)
    \/ \E w \in 1..MaxWriters : WriterFlushRest(w)

SpecWriters == WritersInit /\ [][WritersNext]_vars

(***************************************************************************)
(* The identity layer over a long run: the endpoint fails first            *)
(***************************************************************************)

\* The header of a correctly signed, unexpired token of the real agent.
GoodHeader == Header(TRUE, FALSE, 2, "Bearer", GoodToken)

\* The process starts with the key-set endpoint unreachable.
RecoverInit ==
    /\ IdInit
    /\ auth0_domain
    /\ endpoint = "down"
    /\ RouteInit
    /\ routing_cfg = load_routing_rules
    /\ LogInit
    /\ ToolInit

\* One call of validate_token(auth_header); any number of them are made.
ValidateToken(h) ==
    /\ pc = "idle"
    /\ identity' = validate_token(h, KeySetFor(h).val)
    /\ jwks_cache' = KeySetFor(h).cache
    /\ jwks_fetches' = jwks_fetches + KeySetFor(h).fetched
    /\ auth_header' = h
    /\ op' = "validate_token"
    /\ steps' = <<"validate_token">>
    /\ pc' = "done"
    /\ UNCHANGED <<agent_name, response, endpoint, auth0_domain, requests, causes,
                   fga_calls, fga_seen, rejected, routeVars, logVars, toolVars>>

RecoverNext ==
    \/ \E h \in Headers : ValidateToken(h)
    \/ Respond
    \/ \E e \in EndpointStates : EndpointChange(e)

\* Every call returns, and callers keep presenting the correctly signed token.
SpecRecover ==
    /\ RecoverInit
    /\ [][RecoverNext]_vars
    /\ WF_vars(Respond)
    /\ SF_vars(ValidateToken(GoodHeader))

(***************************************************************************)
(* Properties of the identity layer and the gateway                        *)
(***************************************************************************)

\* The header of the request in progress is one validate_token must reject:
\* missing, not "Bearer <token>", or with a token that is malformed, expired,
\* signed by another key, without a published key id, or met by no key set.
MustReject ==
    \/ ~auth_header.present
    \/ auth_header.empty
    \/ auth_header.nparts # 2
    \/ auth_header.scheme \notin {"Bearer", "bearer", "BEARER"}
    \/ ~auth_header.token.wellformed
    \/ auth_header.token.expired
    \/ auth_header.token.signer \notin PublishedKids
    \/ auth_header.token.kid \notin PublishedKids
    \/ jwks_cache.val.kind # "dict"

C3_IdentityInvariant ==
    op \in {"agent_request", "get_full_identity"} =>
        /\ ~identity.valid => ~identity.fga_allowed
        /\ identity.agent_id # None <=> identity.valid

\* get_full_identity returned an identity it had rejected, and one whose
\* token carried no sub claim.
C3_Witness ==
    /\ op = "get_full_identity"
    /\ pc = "done"
    /\ \/ ~identity.valid /\ fga_calls = 0
       \/ identity.valid /\ identity.agent_id = "" /\ fga_calls = 1

\* C7: within one agent_request, a valid identity is routed only after
\* check_fga has run for it.
C7_AuthorizeBeforeRoute ==
    (/\ op = "agent_request"
     /\ identity.valid
     /\ \E i \in 1..Len(steps) : steps[i] = "route_request")
        => \E i, j \in 1..Len(steps) :
              i < j /\ steps[i] = "check_fga" /\ steps[j] = "route_request"

\* C8: check_fga returns true when a setting of the policy service is
\* missing, when no access token is obtained, and when the check request
\* fails or times out; it returns false only for a successful answer that
\* does not allow.
C8_FailsOpen ==
    (op = "get_full_identity" /\ fga_calls > 0) =>
        /\ ~FgaComplete(fga_seen.env) => fga_seen.result
        /\ fga_seen.tok \in {"error", "no_token"} => fga_seen.result
        /\ fga_seen.svc \in {"timeout", "http_error", "malformed"} => fga_seen.result
        /\ ~fga_seen.result =>
              /\ FgaComplete(fga_seen.env)
              /\ fga_seen.tok = "token"
              /\ fga_seen.svc \in {"denied", "no_field"}
        /\ identity.fga_allowed = fga_seen.result

\* The check request timed out and the identity stayed authorized.
C8_Witness ==
    /\ op = "get_full_identity"
    /\ fga_calls > 0
    /\ fga_seen.svc = "timeout"
    /\ identity.fga_allowed

(***************************************************************************)
(* Properties of the router                                                *)
(***************************************************************************)

RulesOf(config) == DictGet(config, "rules", << >>)

\* The rules whose condition is true of the identity, by file position.
Matching(config, id) ==
    {i \in 1..Len(RulesOf(config)) :
        evaluate_condition(id, DictGet(RulesOf(config)[i], "condition", << >>))}

\* Rule i goes before rule j: smaller priority number, file order on a tie.
Before(config, i, j) ==
    \/ Priority(RulesOf(config)[i]) < Priority(RulesOf(config)[j])
    \/ Priority(RulesOf(config)[i]) = Priority(RulesOf(config)[j]) /\ i < j

Winner(config, id) ==
    CHOOSE i \in Matching(config, id) :
        \A j \in Matching(config, id) \ {i} : Before(config, i, j)

Destination(rule, id) ==
    IF DictGet(rule, "route_to", "") = "self" THEN get_honeypot_type(id)
    ELSE DictGet(rule, "route_to", "")

Reorderings(rules) ==
    {[i \in 1..Len(rules) |-> rules[f[i]]] :
        f \in {g \in [1..Len(rules) -> 1..Len(rules)] :
                 \A a, b \in 1..Len(rules) : g[a] = g[b] => a = b}}

\* C4: route_request returns the destination of the matching rule with the
\* smallest priority number (the earlier in the file on a tie), the default
\* route when no rule matches; and when at most one condition is true, every
\* reordering of the rules gives the same destination.
C4_FirstMatchWins ==
    pc = "routed" =>
        /\ agent_name =
             IF Matching(routing_cfg, identity) = {}
             THEN DictGet(routing_cfg, "default_route", "honeypot_db_admin")
             ELSE Destination(RulesOf(routing_cfg)[Winner(routing_cfg, identity)], identity)
        /\ Cardinality(Matching(routing_cfg, identity)) <= 1 =>
             \A p \in Reorderings(RulesOf(routing_cfg)) :
                route_request(identity, [routing_cfg EXCEPT !.rules = p], << >>).dest
                    = agent_name

\* Two rules match and the one later in the file has the smaller priority
\* number: the order of evaluation decides, and it is the priority's.
C4_Witness ==
    /\ pc = "routed"
    /\ Cardinality(Matching(routing_cfg, identity)) = 2
    /\ Winner(routing_cfg, identity) = 2
    /\ Destination(RulesOf(routing_cfg)[1], identity) # agent_name

\* The rule set evaluates a "not identity.valid" rule first, and that rule
\* sends to a decoy.
InvalidRuleFirst(config) ==
    \E i \in 1..Len(RulesOf(config)) :
        /\ DictGet(RulesOf(config)[i], "condition", << >>) = NotValid
        /\ DictGet(RulesOf(config)[i], "route_to", "") \in
              {"self", "honeypot_db_admin", "honeypot_privileged"}
        /\ \A j \in 1..Len(RulesOf(config)) \ {i} : Before(config, i, j)

\* C5: when the rule evaluated first is "not identity.valid" with a decoy
\* destination, no identity with valid = false is routed to the real agent.
C5_InvalidNeverReal ==
    (pc = "routed" /\ ~identity.valid /\ InvalidRuleFirst(routing_cfg))
        => agent_name \in {"honeypot_db_admin", "honeypot_privileged"}

\* An invalid identity is routed by a rule set whose first rule is the
\* invalid rule and whose other rule, which matches it too, names the real
\* agent.
C5_Witness ==
    /\ pc = "routed"
    /\ ~identity.valid
    /\ InvalidRuleFirst(routing_cfg)
    /\ \E j \in Matching(routing_cfg, identity) :
          DictGet(RulesOf(routing_cfg)[j], "route_to", "") = "real"
    /\ agent_name # "real"

\* The identity every flag of which allows the real agent.
Cleared(id) == id.valid /\ id.fga_allowed /\ ~id.is_honeypot

C9_AlwaysAcknowledges ==
    call.fn = "log_interaction" => ret = [raised |-> FALSE, ret |-> Success]

\* A call in which neither the log nor the vector store could be written.
C9_Witness ==
    /\ call.fn = "log_interaction"
    /\ call.faults.mkdir = "error"
    /\ call.faults.embed = "error"
    /\ ret.ret = Success
    /\ log_file = << >>

\* The call that has just returned wrote its line.
Wrote == call'.faults.mkdir = "ok" /\ call'.faults.write = "ok"

\* C10: every step leaves the lines of the log as they are; a log_interaction
\* call whose write succeeds adds one line, the entry of its payload, at the
\* end, another line for a payload already logged; nothing else changes the log.
C10_AppendOnly ==
    [][/\ Len(log_file') >= Len(log_file)
       /\ SubSeq(log_file', 1, Len(log_file)) = log_file
       /\ IF call'.n # call.n /\ call'.fn = "log_interaction" /\ Wrote
          THEN log_file' = Append(log_file, JsonLine(clock, call'.args))
          ELSE log_file' = log_file]_vars

\* The same payload was logged twice at the same instant after another line,
\* and the log holds all three.
C10_Witness ==
    /\ Len(log_file) = 3
    /\ log_file[2] = log_file[3]
    /\ log_file[1] # log_file[2]
    /\ call.fn = "log_interaction"

\* The line of the log a record of the vector store was made from.
MadeFrom(record, line) ==
    /\ line.timestamp = record.metadata.timestamp
    /\ line.source_agent = record.metadata.source_agent
    /\ line.message = record.vector.text
    /\ line.threat_indicators = record.metadata.actions

\* C11: every record of the vector store was made from a line that is in the
\* local log.
C11_IndexWithinLog ==
    \A i \in 1..Len(vector_store) :
        \E j \in 1..Len(log_file) : MadeFrom(vector_store[i], log_file[j])

(***************************************************************************)
(* Properties of the pattern query                                         *)
(***************************************************************************)

\* The query got no embedding, or the store's answer could not be had or read.
QueryFailed ==
    \/ query.embed # "ok"
    \/ query.store \in {"timeout", "no_index", "malformed"}
    \/ \E i \in 1..Len(query.vectors) : Breaks(query.vectors[i])

\* C13: query_patterns raises nothing, and returns [] when the embedding
\* fails or the vector-store query fails.
C13_QueryNeverRaises ==
    query.n > 0 =>
        /\ ~matches.raised
        /\ QueryFailed => matches.list = << >>

\* The store answered, and one element of the answer could not be read.
C13_Witness ==
    /\ query.n > 0
    /\ query.store = "ok"
    /\ Len(query.vectors) = 3
    /\ Breaks(query.vectors[3])
    /\ ~Breaks(query.vectors[1])
    /\ query.vectors[1].distance = 1000
    /\ matches.list = << >>

\* A candidate whose similarity, 1 - distance, is at least 0.7.
Similar(v) == v.has_distance /\ 10000 - v.distance >= 7000

\* C14: query_patterns returns the candidates whose similarity 1 - distance is
\* at least 0.7, those and no others, each with a similarity from 0.7 to 1.
C14_ExactlyAboveThreshold ==
    (query.n > 0 /\ ~QueryFailed /\ query.store = "ok") =>
        /\ Len(matches.list) = Len(SelectSeq(query.vectors, Similar))
        /\ \A i \in 1..Len(matches.list) :
              /\ matches.list[i].similarity >= 700
              /\ matches.list[i].similarity <= 1000
              /\ matches.list[i].source_agent =
                    ToMatch(SelectSeq(query.vectors, Similar)[i]).source_agent

\* C15: the list query_patterns returns is in descending order of similarity.
C15_SortedDescending ==
    query.n > 0 =>
        \A i, j \in 1..Len(matches.list) :
            i < j => matches.list[i].similarity >= matches.list[j].similarity

(***************************************************************************)
(* Properties of the session context                                       *)
(***************************************************************************)

\* The entries of the log the call read that belong to its session.
SessionEntries == SelectSeq(context.log, LAMBDA e : e.session_id = context.session_id)

\* The rendered entries: the returned lines without the header.
Rendered == IF context.result = << >> THEN << >> ELSE Tail(context.result)

\* The n most recent of a sequence of entries, rendered.
MostRecent(entries, n) ==
    LET k == IF n < Len(entries) THEN n ELSE Len(entries)
    IN  [i \in 1..k |-> ContextLine(entries[Len(entries) - k + i])]

\* How often x occurs in seq.
Count(seq, x) == Cardinality({i \in 1..Len(seq) : seq[i] = x})

\* A call that read the log for a session.
ReadSession ==
    context.n > 0 /\ context.read = "ok" /\ context.session_id \notin {"", None}

\* C16: for every session id S and limit N >= 0, get_session_context(S, N)
\* renders exactly the N most recent logged fingerprints of S, whatever their
\* order: none of another session, none of the N most recent missing, and at
\* most N entries.
C16_ExactlyMostRecent ==
    ReadSession =>
        /\ Len(Rendered) <= context.limit
        /\ \A x \in {Rendered[i] : i \in 1..Len(Rendered)}
                \cup {ContextLine(context.log[i]) : i \in 1..Len(context.log)} :
               Count(Rendered, x) = Count(MostRecent(SessionEntries, context.limit), x)

\* C17: the rendered entries are listed most-recent-first: they are entries of
\* the session taken from the log going backwards.
C17_MostRecentFirst ==
    ReadSession =>
        \E f \in [1..Len(Rendered) -> 1..Len(context.log)] :
            /\ \A i, j \in 1..Len(Rendered) : i < j => f[i] > f[j]
            /\ \A i \in 1..Len(Rendered) :
                   /\ context.log[f[i]].session_id = context.session_id
                   /\ Rendered[i] = ContextLine(context.log[f[i]])

\* C18: get_session_context returns "" for an empty session id, for a log that
\* is missing or cannot be read, and when no fingerprint has the session id;
\* a fingerprint recorded with the empty session_id is never rendered.
C18_EmptyContext ==
    context.n > 0 =>
        /\ (\/ context.session_id \in {"", None}
            \/ context.read \in {"missing", "unreadable"}
            \/ SessionEntries = << >>) => context.result = << >>
        /\ \A i \in 1..Len(Rendered) :
               \E j \in 1..Len(context.log) :
                   /\ context.log[j].session_id # ""
                   /\ Rendered[i] = ContextLine(context.log[j])

\* The context was asked for the empty session id while the log holds a
\* fingerprint recorded without a session.
C18_Witness ==
    /\ context.n > 0
    /\ context.session_id = ""
    /\ context.read = "ok"
    /\ \E j \in 1..Len(context.log) : context.log[j].session_id = ""
    /\ context.result = << >>

(***************************************************************************)
(* Properties of the gateway with its executor                             *)
(***************************************************************************)

\* The decoy destinations.
Decoys == {"honeypot_db_admin", "honeypot_privileged"}

\* The step in which execute_agent returns.
Executes == pc = "await_agent" /\ pc' = "done"

\* The entries of the session context the agent was handed.
Injected(e) ==
    IF e.message.session_context = << >> THEN << >> ELSE Tail(e.message.session_context)

\* The fingerprints the log holds for the session of the request in flight,
\* the DefaultLimit most recent, rendered.
RecentOfSession ==
    MostRecent(SelectSeq(log_file, LAMBDA e : e.session_id = request.session_id),
               DefaultLimit)

\* C12 as amended: when a request with session id S is routed to a decoy and
\* the fingerprint log can be read as the agent's message is built, the
\* session context in that message holds every fingerprint logged for S
\* among the limit most recent, whichever decoy recorded it; a request routed
\* to a destination that is no decoy gets no session context.
C12_ContextWhenLogReadable ==
    [][Executes =>
        /\ (/\ agent_name \in Decoys
            /\ request.session_id \notin {None, ""}
            /\ exec'.run.agent # "init_error"
            /\ exec'.run.read = "ok")
           => \A i \in 1..Len(RecentOfSession) : Has(Injected(exec'), RecentOfSession[i])
        /\ agent_name \notin Decoys => exec'.message.session_context = << >>]_vars

\* C12: when a request with session id S is routed to a decoy, the session
\* context in the message handed to it holds every fingerprint logged for S
\* among the limit most recent; a request routed to a destination that is no
\* decoy gets no session context.
C12_CrossDecoyContext ==
    [][Executes =>
        /\ (/\ agent_name \in Decoys
            /\ request.session_id \notin {None, ""}
            /\ exec'.run.agent # "init_error")
           => \A i \in 1..Len(RecentOfSession) : Has(Injected(exec'), RecentOfSession[i])
        /\ agent_name \notin Decoys => exec'.message.session_context = << >>]_vars

\* The privileged decoy is handed the fingerprint db-admin-001 recorded for
\* the same session while serving an earlier request.
C12_Witness ==
    /\ pc = "done"
    /\ exec.n > 0
    /\ agent_name = "honeypot_privileged"
    /\ requests = 2
    /\ \E i \in 1..Len(Injected(exec)) :
           /\ Injected(exec)[i].to = "db-admin-001"
           /\ Injected(exec)[i].msg = "show me the credentials"

\* C19: agent_request returns a body with status and response, and raises
\* nothing, whatever fails in validate_token, route_request or execute_agent.
C19_AlwaysABody ==
    (op = "agent_request" /\ pc = "done") =>
        /\ response.by # "exception"
        /\ response.status # None
        /\ response.response # None

\* A request served while routing.yaml cannot be read.
C19_Witness ==
    /\ op = "agent_request"
    /\ pc = "done"
    /\ ~files.routing
    /\ response = Acknowledged

\* The prompts that are destination d's own: its prompt file, and for the
\* decoy db-admin-001 the fallback prompt of that persona.
OwnPrompts(d) ==
    {AgentsYaml.agents[d].prompt_file}
    \cup (IF AgentsYaml.agents[d].name = "db-admin-001" THEN {FallbackPrompt} ELSE {})

\* The tools that are destination d's own, imported or replaced by a no-op.
OwnTools(d) ==
    {load_tool(AgentsYaml.agents[d].tools[i], b) :
        i \in 1..Len(AgentsYaml.agents[d].tools), b \in BOOLEAN}

\* C20: whatever fails in the executor, a request routed to destination d is
\* served with d's own prompt and tools, and answered by that agent or by a
\* fallback response of d (or the one of last resort), never with the
\* configuration of another destination.
C20_FailureKeepsDestination ==
    (pc = "done" /\ exec.n > 0 /\ agent_name \in DOMAIN AgentsYaml.agents) =>
        /\ exec.agent.system_prompt \in OwnPrompts(agent_name)
        /\ \A i \in 1..Len(exec.agent.tools) : exec.agent.tools[i] \in OwnTools(agent_name)
        /\ exec.raised =>
               [status |-> response.status, response |-> response.response]
                   \in {load_fallbacks.agent_fallbacks[agent_name], _get_hardcoded_fallback}


(***************************************************************************)
(* Properties of rule conditions that are no expressions                   *)
(***************************************************************************)

\* eval raises on the text the condition becomes for the identity.
Raises(id, condition) == PyEval(Substitute(id, condition), id).raised

\* The condition is evaluated without an error and its value is true.
HoldsWithoutError(id, condition) ==
    /\ ~Raises(id, condition)
    /\ Truthy(PyEval(Substitute(id, condition), id).val)

\* The rules of the rule set whose condition raises for the identity.
Raising(config, id) ==
    {i \in 1..Len(RulesOf(config)) :
        Raises(id, DictGet(RulesOf(config)[i], "condition", << >>))}

\* The rules of the rule set whose condition holds without an error.
Holding(config, id) ==
    {i \in 1..Len(RulesOf(config)) :
        HoldsWithoutError(id, DictGet(RulesOf(config)[i], "condition", << >>))}

\* C21: a rule set with a malformed condition is rejected when it is loaded,
\* so no request is ever routed by a rule set that has a rule whose condition
\* is no expression.
C21_MalformedNeverRoutes ==
    (op = "route_request" /\ pc = "routed")
        => \A id \in RouteIdentities : Raising(routing_cfg, id) = {}

\* C23: when evaluating a rule's condition raises, evaluate_condition reports
\* false and route_request goes on to the next rule: the destination returned
\* is that of the first rule, in priority order, whose condition holds without
\* an error, the default route when there is none; a destination is returned
\* whichever rules raise.
C23_RaisingRuleSkipped ==
    /\ ~evaluate_condition(identity, Malformed)
    /\ (op = "route_request" /\ pc = "routed") =>
          /\ agent_name \in {"real", "honeypot_db_admin", "honeypot_privileged"}
          /\ agent_name =
               IF Holding(routing_cfg, identity) = {}
               THEN DictGet(routing_cfg, "default_route", "honeypot_db_admin")
               ELSE LET w == CHOOSE i \in Holding(routing_cfg, identity) :
                                \A j \in Holding(routing_cfg, identity) \ {i} :
                                    Before(routing_cfg, i, j)
                    IN  Destination(RulesOf(routing_cfg)[w], identity)

\* The rule evaluated first raises and names the real agent, the rule after
\* it holds and names a decoy: the request went to the decoy.
C23_Witness ==
    /\ op = "route_request"
    /\ pc = "routed"
    /\ Len(RulesOf(routing_cfg)) = 2
    /\ \E i \in Raising(routing_cfg, identity) :
          /\ \A j \in 1..2 \ {i} :
                /\ Before(routing_cfg, i, j)
                /\ j \in Holding(routing_cfg, identity)
                /\ RulesOf(routing_cfg)[j].route_to = "self"
          /\ RulesOf(routing_cfg)[i].route_to = "real"
    /\ agent_name # "real"

(***************************************************************************)
(* Properties of the key-set cache                                         *)
(***************************************************************************)

\* The cache holds a key set.
KeySetObtained == jwks_cache.set /\ jwks_cache.val.kind = "dict"

\* C22: the key set is fetched only while the cache holds none, one fetch a
\* call; once a key set has been obtained no later call fetches it again, and
\* the cached key set stays.
C22_FetchedOnce ==
    [][/\ jwks_fetches' # jwks_fetches =>
             ~KeySetObtained /\ jwks_fetches' = jwks_fetches + 1
       /\ KeySetObtained => jwks_fetches' = jwks_fetches /\ jwks_cache' = jwks_cache]_vars

\* A bearer token is validated while the endpoint is down, against the key
\* set an earlier call fetched: the one fetch of the process.
C22_Witness ==
    /\ pc # "idle"
    /\ ReachesJwks(auth_header)
    /\ endpoint = "down"
    /\ KeySetObtained
    /\ jwks_fetches = 1
    /\ identity.valid

(***************************************************************************)
(* Properties of the authorization check's frame                           *)
(***************************************************************************)

\* What validate_token made of the header of the request at hand: the key set
\* it saw is the cached one when the header holds a bearer token.
Validated ==
    validate_token(auth_header,
                   IF ReachesJwks(auth_header) THEN jwks_cache.val ELSE JwksNone)

\* C24: get_full_identity returns an invalid identity as validate_token made
\* it, check_fga not called; for a valid identity check_fga is called exactly
\* once and its result becomes fga_allowed, the other fields staying; and the
\* identity route_request was handed is the one validate_token returned.
C24_CheckOnlyForValid ==
    /\ (op = "get_full_identity" /\ pc = "done" /\ ~identity.valid) =>
          /\ fga_calls = 0
          /\ steps = <<"validate_token">>
          /\ identity = Validated
    /\ (op = "get_full_identity" /\ pc = "done" /\ identity.valid) =>
          /\ fga_calls = 1
          /\ steps = <<"validate_token", "check_fga">>
          /\ identity = [Validated EXCEPT !.fga_allowed = fga_seen.result]
    /\ (op = "get_full_identity" /\ pc = "await_fga") =>
          identity.valid /\ fga_calls = 0 /\ identity = Validated
    /\ (op = "agent_request" /\ pc = "await_agent") => identity = Validated

\* A valid identity came back from get_full_identity with fga_allowed set
\* false by the one check, validate_token having made it true.
C24_Witness ==
    /\ op = "get_full_identity"
    /\ pc = "done"
    /\ identity.valid
    /\ fga_calls = 1
    /\ ~identity.fga_allowed
    /\ Validated.fga_allowed

(***************************************************************************)
(* Properties of the "self" destination                                    *)
(***************************************************************************)

\* The decoy the trap profile of the claims stands for.
ProfileDecoy(claims) ==
    IF "trap_profile" \in claims.has /\ claims.trap_profile = "privileged"
    THEN "honeypot_privileged"
    ELSE "honeypot_db_admin"

\* The rule that decided the routing of the identity names "self".
SelfRuleWon(config, id) ==
    /\ Matching(config, id) # {}
    /\ DictGet(RulesOf(config)[Winner(config, id)], "route_to", "") = "self"

\* C25: when the matching rule's destination is "self", route_request returns
\* honeypot_db_admin for the trap profile "db-admin", honeypot_privileged for
\* "privileged", and honeypot_db_admin for an absent or any other profile;
\* "self" is never the destination returned.
C25_SelfResolved ==
    (op = "agent_request" /\ pc = "await_agent") =>
        /\ agent_name # "self"
        /\ SelfRuleWon(routing_cfg, identity) =>
              /\ agent_name = ProfileDecoy(identity.raw_claims)
              /\ ClaimGet(identity.raw_claims, "trap_profile", "") = "db-admin"
                    => agent_name = "honeypot_db_admin"

\* A decoy's own token with the "privileged" profile was routed by a "self"
\* rule to honeypot_privileged.
C25_Witness ==
    /\ op = "agent_request"
    /\ pc = "await_agent"
    /\ SelfRuleWon(routing_cfg, identity)
    /\ ClaimGet(identity.raw_claims, "trap_profile", "") = "privileged"
    /\ agent_name = "honeypot_privileged"

\* A "self" rule decided for a token with a profile that names no decoy.
C25_OtherProfile ==
    /\ op = "agent_request"
    /\ pc = "await_agent"
    /\ SelfRuleWon(routing_cfg, identity)
    /\ ClaimGet(identity.raw_claims, "trap_profile", "") = "high-value-target"

(***************************************************************************)
(* Properties of the threat level                                          *)
(***************************************************************************)

HighRisk == {"credential_request", "privilege_escalation", "data_exfiltration"}
MediumRisk == {"reconnaissance", "probing", "suspicious_query"}

\* The indicators of a list, order and repetition forgotten.
IndicatorSet(indicators) == {indicators[i] : i \in 1..Len(indicators)}

\* The level of a set of indicators.
LevelOf(S) ==
    IF S \cap HighRisk # {} THEN "HIGH"
    ELSE IF S \cap MediumRisk # {} THEN "MEDIUM"
    ELSE IF S # {} THEN "LOW"
    ELSE "UNKNOWN"

\* C26: _calculate_threat_level returns high when an indicator is in the
\* high-risk set, else medium when one is in the medium-risk set, else low
\* for a non-empty list, else unknown; lists with the same indicators, in any
\* order and with any repetition, get the same level.
C26_LevelOfTheSet ==
    call.fn = "_calculate_threat_level" =>
        /\ ret.ret = LevelOf(IndicatorSet(call.args.threat_indicators))
        /\ \A other \in SeqsUpTo(IndicatorPool, MaxIndicators) :
              IndicatorSet(other) = IndicatorSet(call.args.threat_indicators)
                  => _calculate_threat_level(other) = ret.ret

\* A list with a medium-risk indicator twice and a high-risk one after them
\* got the level high.
C26_Witness ==
    /\ call.fn = "_calculate_threat_level"
    /\ call.args.threat_indicators =
          <<"reconnaissance", "reconnaissance", "credential_request">>
    /\ ret.ret = "HIGH"

(***************************************************************************)
(* Properties of the vector index                                          *)
(***************************************************************************)

\* The step is one call of log_interaction.
LogInteractionStep == call'.n = call.n + 1 /\ call'.fn = "log_interaction"

\* The step upserts one record, whose vector has the fixed dimension.
OneUpsert ==
    /\ Len(vector_store') = Len(vector_store) + 1
    /\ SubSeq(vector_store', 1, Len(vector_store)) = vector_store
    /\ vector_store'[Len(vector_store')].vector.dim = EMBEDDING_DIMENSION

\* C27: a call of log_interaction upserts one record, with a vector of
\* dimension 1024, or none; it upserts none when the provider fails, answers
\* without an embedding or answers with one of another dimension.
C27_UpsertOnlyEmbedded ==
    [][LogInteractionStep =>
          /\ vector_store' = vector_store \/ (call'.faults.embed = "ok" /\ OneUpsert)
          /\ call'.faults.embed \in {"error", "missing", "short", "long"}
                => vector_store' = vector_store]_vars

\* A call whose embedding came back one float short followed one that was
\* indexed: the index still holds the one record.
C27_Witness ==
    /\ call.fn = "log_interaction"
    /\ call.n = 2
    /\ call.faults.embed = "short"
    /\ Len(log_file) = 2
    /\ Len(vector_store) = 1

(***************************************************************************)
(* Properties of the routing event buffer                                  *)
(***************************************************************************)

\* The name of the rule that routes the identity, "default" when none does.
DecidingRule(config, id) ==
    IF Matching(config, id) = {} THEN "default"
    ELSE DictGet(RulesOf(config)[Winner(config, id)], "name", "unknown")

\* The call routing the identity emits an event.
Emits(config, id) ==
    IF Matching(config, id) = {} THEN IsSet(DictGet(config, "default_log_event", None))
    ELSE IsSet(DictGet(RulesOf(config)[Winner(config, id)], "log_event", None))

\* The buffer after the step: the events it held, without the oldest when it
\* was full, in their order, and the event of this call after them.
OldestEvicted ==
    /\ routing_log' # << >>
    /\ routing_log'[Len(routing_log')].rule_name = DecidingRule(routing_cfg, identity)
    /\ routing_log'[Len(routing_log')].valid = identity.valid
    /\ routing_log'[Len(routing_log')].fga_allowed = identity.fga_allowed
    /\ routing_log' =
          Append(IF Len(routing_log) = MaxRoutingLog THEN Tail(routing_log)
                 ELSE routing_log,
                 routing_log'[Len(routing_log')])

\* C28: the routing event buffer never holds more than 100 events; a call
\* that emits an event adds it at the end, evicting the oldest event when the
\* buffer was full and keeping the others in their order; any other step
\* leaves the buffer alone.
C28_BoundedOldestFirstOut ==
    /\ [](Len(routing_log) <= MaxRoutingLog)
    /\ [][IF pc = "idle" /\ pc' = "routed" /\ Emits(routing_cfg, identity)
          THEN OldestEvicted
          ELSE routing_log' = routing_log]_vars

\* An event was added to a full buffer: its first event is now the second
\* of the seed, which differs from the first, and the last of the seed is
\* followed by the new event.
C28_Witness ==
    /\ pc = "routed"
    /\ requests = 1
    /\ Len(routing_log) = MaxRoutingLog
    /\ Seeded(MaxRoutingLog)[1] # Seeded(MaxRoutingLog)[2]
    /\ routing_log[1] = Seeded(MaxRoutingLog)[2]
    /\ routing_log[MaxRoutingLog - 1] = Seeded(MaxRoutingLog)[MaxRoutingLog]
    /\ routing_log[MaxRoutingLog].rule_name = "invalid_token"

(***************************************************************************)
(* Properties of concurrent writers                                        *)
(***************************************************************************)

\* Every call has returned from its write block.
WritersDone == \A w \in DOMAIN writers : writers[w].pc \in {"closed", "failed"}

\* How many times the line stands in the file, and how many calls wrote it.
TimesInFile(line) == Cardinality({i \in 1..Len(log_file) : log_file[i] = line})
TimesWritten(line) ==
    Cardinality({w \in DOMAIN writers : writers[w].pc = "closed" /\ writers[w].line = line})

\* C29: when the calls writing the log at the same time have finished, every
\* line of the file is the complete record of one call, and the record of
\* every call whose write succeeded is a line of the file, once for each call
\* that wrote it.
C29_WritesSerialized ==
    (writers # << >> /\ WritersDone) =>
        /\ \A i \in 1..Len(log_file) :
              \E w \in DOMAIN writers : log_file[i] = writers[w].line
        /\ \A w \in DOMAIN writers :
              writers[w].pc = "closed" =>
                 TimesInFile(writers[w].line) = TimesWritten(writers[w].line)

(***************************************************************************)
(* Properties of the key-set cache over a long run                         *)
(***************************************************************************)

\* The correctly signed token has just been accepted.
GoodAccepted == pc = "done" /\ auth_header = GoodHeader /\ identity.valid

\* C30: when the endpoint, unreachable at the first fetch, becomes reachable
\* and stays so, a later validate_token call fetches the key set and the
\* correctly signed token is eventually accepted.
C30_AcceptedAfterRecovery == (<>[](endpoint = "up")) => <>GoodAccepted
====
